---------------------------- MODULE Spec2Model ----------------------------
(***************************************************************************)
(* Materials feasibility decision engine (src/agents/simulation_agent.py). *)
(*                                                                         *)
(* One behaviour is one call run_simulation_agent(formula).  A formula is  *)
(* a sequence of one-character strings.  Electronegativities are held in   *)
(* hundredths, energies in thousandths of an eV/atom, radii in pm.         *)
(* An optional value (Python None / float) is <<>> or <<v>>.               *)
(***************************************************************************)
EXTENDS Integers, Sequences, FiniteSets, TLC

(***************************************************************************)
(* Characters                                                              *)
(***************************************************************************)
UPPER == {"A","B","C","D","E","F","G","H","I","J","K","L","M",
          "N","O","P","Q","R","S","T","U","V","W","X","Y","Z"}

LOWER == {"a","b","c","d","e","f","g","h","i","j","k","l","m",
          "n","o","p","q","r","s","t","u","v","w","x","y","z"}

DIGITS == <<"0","1","2","3","4","5","6","7","8","9">>

DIGITSET == {DIGITS[i] : i \in 1..10}

\* int() of one decimal digit
DigitVal(c) == (CHOOSE i \in 1..10 : DIGITS[i] = c) - 1

ASCII_ORDER == <<"0","1","2","3","4","5","6","7","8","9",
                 "A","B","C","D","E","F","G","H","I","J","K","L","M",
                 "N","O","P","Q","R","S","T","U","V","W","X","Y","Z",
                 "a","b","c","d","e","f","g","h","i","j","k","l","m",
                 "n","o","p","q","r","s","t","u","v","w","x","y","z">>

\* position of a character in code-point order (digits < upper < lower)
Ord(c) == CHOOSE i \in 1..Len(ASCII_ORDER) : ASCII_ORDER[i] = c

\* Python str comparison a < b: lexicographic by code point
RECURSIVE StrLess(_, _)
StrLess(a, b) ==
    IF b = <<>> THEN FALSE
    ELSE IF a = <<>> THEN TRUE
    ELSE IF Ord(Head(a)) < Ord(Head(b)) THEN TRUE
    ELSE IF Ord(Head(a)) > Ord(Head(b)) THEN FALSE
    ELSE StrLess(Tail(a), Tail(b))

(***************************************************************************)
(* Optional values                                                         *)
(***************************************************************************)
None == <<>>

Some(v) == <<v>>

(***************************************************************************)
(* Element symbols                                                         *)
(***************************************************************************)
El_H  == <<"H">>
El_Li == <<"L","i">>
El_Be == <<"B","e">>
El_B  == <<"B">>
El_C  == <<"C">>
El_N  == <<"N">>
El_O  == <<"O">>
El_F  == <<"F">>
El_Na == <<"N","a">>
El_Mg == <<"M","g">>
El_Al == <<"A","l">>
El_Si == <<"S","i">>
El_P  == <<"P">>
El_S  == <<"S">>
El_Cl == <<"C","l">>
El_K  == <<"K">>
El_Ca == <<"C","a">>
El_Fe == <<"F","e">>
El_Cu == <<"C","u">>
El_Zn == <<"Z","n">>
El_Br == <<"B","r">>
El_I  == <<"I">>
El_Os == <<"O","s">>

(***************************************************************************)
(* Reference tables                                                        *)
(***************************************************************************)
\* Pauling electronegativity, in hundredths
ELECTRONEGATIVITY ==
    (El_H :> 220) @@ (El_Li :> 98) @@ (El_Be :> 157) @@ (El_B :> 204) @@
    (El_C :> 255) @@ (El_N :> 304) @@ (El_O :> 344) @@ (El_F :> 398) @@
    (El_Na :> 93) @@ (El_Mg :> 131) @@ (El_Al :> 161) @@ (El_Si :> 190) @@
    (El_P :> 219) @@ (El_S :> 258) @@ (El_Cl :> 316) @@
    (El_K :> 82) @@ (El_Ca :> 100) @@ (El_Fe :> 183) @@ (El_Cu :> 190) @@
    (El_Zn :> 165)

\* oxidation states, in the order the table lists them
OXIDATION_STATES ==
    (El_H :> <<1, -1>>) @@ (El_O :> <<-2>>) @@ (El_F :> <<-1>>) @@
    (El_Cl :> <<-1, 1, 3, 5, 7>>) @@
    (El_N :> <<-3, 3, 5>>) @@ (El_C :> <<-4, 2, 4>>) @@
    (El_Na :> <<1>>) @@ (El_K :> <<1>>) @@ (El_Mg :> <<2>>) @@ (El_Ca :> <<2>>) @@
    (El_Fe :> <<2, 3>>) @@ (El_Cu :> <<1, 2>>) @@ (El_Zn :> <<2>>) @@
    (El_Al :> <<3>>) @@ (El_Si :> <<4>>) @@ (El_P :> <<5, -3>>)

\* ionic radii in picometres
IONIC_RADII_PM ==
    (El_Na :> 102) @@ (El_K :> 138) @@ (El_Ca :> 100) @@ (El_Mg :> 72) @@
    (El_Al :> 53) @@ (El_Si :> 40) @@ (El_Fe :> 78) @@ (El_Cu :> 73) @@
    (El_Zn :> 74) @@ (El_Cl :> 181) @@ (El_O :> 140)

\* ELECTRONEGATIVITY.get(e, 2.0)
EN_DEFAULT == 200

ENKey(e) == IF e \in DOMAIN ELECTRONEGATIVITY THEN ELECTRONEGATIVITY[e] ELSE EN_DEFAULT

\* OXIDATION_STATES.get(e, [])
OxStates(e) == IF e \in DOMAIN OXIDATION_STATES THEN OXIDATION_STATES[e] ELSE <<>>

(***************************************************************************)
(* Sequence helpers                                                        *)
(***************************************************************************)
RECURSIVE SumSeq(_)
SumSeq(s) == IF s = <<>> THEN 0 ELSE Head(s) + SumSeq(Tail(s))

\* InsertByEN as sorted(..., reverse=True) would order the elements
RECURSIVE InsertByEN_Descending(_, _)
InsertByEN_Descending(x, s) ==
    IF s = <<>> THEN <<x>>
    ELSE IF ENKey(Head(s)) >= ENKey(x) THEN <<Head(s)>> \o InsertByEN_Descending(x, Tail(s))
    ELSE <<x>> \o s

\* insert x into the sequence s, sorted by ELECTRONEGATIVITY.get(e, 2.0), after
\* every element whose key is not larger (Python's sorted() is stable)
RECURSIVE InsertByEN(_, _)
InsertByEN(x, s) ==
    IF s = <<>> THEN <<x>>
    ELSE IF ENKey(Head(s)) <= ENKey(x) THEN <<Head(s)>> \o InsertByEN(x, Tail(s))
    ELSE <<x>> \o s

\* sorted(els, key=lambda e: ELECTRONEGATIVITY.get(e, 2.0))
RECURSIVE SortedByEN(_)
SortedByEN(s) ==
    IF s = <<>> THEN <<>>
    ELSE InsertByEN(s[Len(s)], SortedByEN(SubSeq(s, 1, Len(s) - 1)))

\* max(1, len(els) // 2)
Mid(els) == IF Len(els) \div 2 >= 1 THEN Len(els) \div 2 ELSE 1

\* els[:mid]
CationHalf(els) == SubSeq(els, 1, IF Mid(els) <= Len(els) THEN Mid(els) ELSE Len(els))

\* els[mid:]
AnionHalf(els) == SubSeq(els, Mid(els) + 1, Len(els))

(***************************************************************************)
(* parse_formula: findall of the pattern "one upper-case letter, at most   *)
(* one lower-case letter, then any digits"; the counts are accumulated per *)
(* symbol in a dict, which keeps insertion order.                          *)
(***************************************************************************)
\* first index >= i of f that does not hold a digit
RECURSIVE DigitsEnd(_, _)
DigitsEnd(f, i) ==
    IF i <= Len(f) /\ f[i] \in DIGITSET THEN DigitsEnd(f, i + 1) ELSE i

\* int(count) of a non-empty digit string
RECURSIVE IntOf(_)
IntOf(ds) ==
    IF ds = <<>> THEN 0
    ELSE 10 * IntOf(SubSeq(ds, 1, Len(ds) - 1)) + DigitVal(ds[Len(ds)])

\* Tokens for a pattern that lets a symbol start with a lower-case letter too
RECURSIVE Tokens_AnyCase(_, _)
Tokens_AnyCase(f, i) ==
    IF i > Len(f) THEN <<>>
    ELSE IF f[i] \in UPPER \cup LOWER
         THEN LET j == IF i + 1 <= Len(f) /\ f[i + 1] \in LOWER THEN i + 2 ELSE i + 1
                  k == DigitsEnd(f, j)
              IN  <<[el |-> SubSeq(f, i, j - 1), count |-> SubSeq(f, j, k - 1)]>>
                  \o Tokens_AnyCase(f, k)
         ELSE Tokens_AnyCase(f, i + 1)

\* the (symbol, count-text) pairs findall returns, scanning from index i
RECURSIVE Tokens(_, _)
Tokens(f, i) ==
    IF i > Len(f) THEN <<>>
    ELSE IF f[i] \in UPPER
         THEN LET j == IF i + 1 <= Len(f) /\ f[i + 1] \in LOWER THEN i + 2 ELSE i + 1
                  k == DigitsEnd(f, j)
              IN  <<[el |-> SubSeq(f, i, j - 1), count |-> SubSeq(f, j, k - 1)]>>
                  \o Tokens(f, k)
         ELSE Tokens(f, i + 1)

\* the keys of a composition, in insertion order
Keys(comp) == [i \in 1..Len(comp) |-> comp[i].el]

HasKey(comp, e) == \E i \in 1..Len(comp) : comp[i].el = e

\* composition[e]
Count(comp, e) == comp[CHOOSE i \in 1..Len(comp) : comp[i].el = e].n

\* Accumulate that overwrites: composition[el] = n
Accumulate_Overwrite(comp, e, n) ==
    IF HasKey(comp, e)
    THEN [i \in 1..Len(comp) |->
            IF comp[i].el = e THEN [el |-> e, n |-> n] ELSE comp[i]]
    ELSE Append(comp, [el |-> e, n |-> n])

\* composition[el] = composition.get(el, 0) + n
Accumulate(comp, e, n) ==
    IF HasKey(comp, e)
    THEN [i \in 1..Len(comp) |->
            IF comp[i].el = e THEN [el |-> e, n |-> comp[i].n + n] ELSE comp[i]]
    ELSE Append(comp, [el |-> e, n |-> n])

RECURSIVE FoldTokens(_, _)
FoldTokens(toks, comp) ==
    IF toks = <<>> THEN comp
    ELSE LET t == Head(toks)
             n == IF t.count # <<>> THEN IntOf(t.count) ELSE 1
         IN  FoldTokens(Tail(toks), Accumulate(comp, t.el, n))

parse_formula(formula) == FoldTokens(Tokens(formula, 1), <<>>)

(***************************************************************************)
(* Stage 1: the stoichiometry veto                                         *)
(***************************************************************************)
\* [s for s in OXIDATION_STATES.get(e, []) if s > 0]
PosStates(e) == SelectSeq(OxStates(e), LAMBDA s : s > 0)

\* [s for s in OXIDATION_STATES.get(e, []) if s < 0]
NegStates(e) == SelectSeq(OxStates(e), LAMBDA s : s < 0)

\* CationCharge taking pos_states[-1] instead of pos_states[0]
CationCharge_LastState(comp, e) ==
    IF PosStates(e) # <<>> THEN PosStates(e)[Len(PosStates(e))] * Count(comp, e) ELSE 0

\* the charge a cation-half element contributes: pos_states[0] * mult, if any
CationCharge(comp, e) ==
    IF PosStates(e) # <<>> THEN PosStates(e)[1] * Count(comp, e) ELSE 0

\* the charge an anion-half element contributes: neg_states[0] * mult, if any
AnionCharge(comp, e) ==
    IF NegStates(e) # <<>> THEN NegStates(e)[1] * Count(comp, e) ELSE 0

\* total after both loops of check_stoichiometry_veto
ChargeTotal(comp) ==
    LET sorted_els == SortedByEN(Keys(comp))
        cation_cands == CationHalf(sorted_els)
        anion_cands == AnionHalf(sorted_els)
    IN  SumSeq([i \in 1..Len(cation_cands) |-> CationCharge(comp, cation_cands[i])])
        + SumSeq([i \in 1..Len(anion_cands) |-> AnionCharge(comp, anion_cands[i])])

JUST_UNARY == "Invalid or unary composition."
JUST_NEUTRAL == "Charge neutrality achievable via assignments"
JUST_NETCHARGE == "Net charge with common oxidation states; unlikely."

\* check_stoichiometry_veto rejecting only the empty composition
check_stoichiometry_veto_EmptyOnly(comp) ==
    IF Len(comp) < 1 THEN [ok |-> FALSE, just |-> JUST_UNARY]
    ELSE IF ChargeTotal(comp) = 0 THEN [ok |-> TRUE, just |-> JUST_NEUTRAL]
    ELSE [ok |-> FALSE, just |-> JUST_NETCHARGE]

\* check_stoichiometry_veto: (ok, justification)
check_stoichiometry_veto(comp) ==
    IF Len(comp) < 2 THEN [ok |-> FALSE, just |-> JUST_UNARY]
    ELSE IF ChargeTotal(comp) = 0 THEN [ok |-> TRUE, just |-> JUST_NEUTRAL]
    ELSE [ok |-> FALSE, just |-> JUST_NETCHARGE]

(***************************************************************************)
(* Stage 2: the three soft filters                                         *)
(***************************************************************************)
JUST_EN_MISSING == "Missing EN data."
JUST_EN_PLAUSIBLE == "suggests plausible bonding."
JUST_EN_MODERATE == "indicates moderate polarity."
JUST_EN_LOW == "is low; metallic clustering likely."

EN_PLAUSIBLE_MIN == 100
EN_MODERATE_MIN == 50

MaxOf(S) == CHOOSE x \in S : \A y \in S : y <= x

MinOf(S) == CHOOSE x \in S : \A y \in S : x <= y

\* electronegativity_trend with delta > 1.0 in place of delta >= 1.0
electronegativity_trend_StrictPlausible(comp) ==
    IF \E i \in 1..Len(comp) : comp[i].el \notin DOMAIN ELECTRONEGATIVITY
    THEN [ok |-> FALSE, just |-> JUST_EN_MISSING]
    ELSE LET en_values == {ELECTRONEGATIVITY[comp[i].el] : i \in 1..Len(comp)}
             delta == MaxOf(en_values) - MinOf(en_values)
         IN  IF delta > EN_PLAUSIBLE_MIN THEN [ok |-> TRUE, just |-> JUST_EN_PLAUSIBLE]
             ELSE IF delta >= EN_MODERATE_MIN THEN [ok |-> TRUE, just |-> JUST_EN_MODERATE]
             ELSE [ok |-> FALSE, just |-> JUST_EN_LOW]

\* electronegativity_trend: (ok, justification); the composition is not empty
electronegativity_trend(comp) ==
    IF \E i \in 1..Len(comp) : comp[i].el \notin DOMAIN ELECTRONEGATIVITY
    THEN [ok |-> FALSE, just |-> JUST_EN_MISSING]
    ELSE LET en_values == {ELECTRONEGATIVITY[comp[i].el] : i \in 1..Len(comp)}
             delta == MaxOf(en_values) - MinOf(en_values)
         IN  IF delta >= EN_PLAUSIBLE_MIN THEN [ok |-> TRUE, just |-> JUST_EN_PLAUSIBLE]
             ELSE IF delta >= EN_MODERATE_MIN THEN [ok |-> TRUE, just |-> JUST_EN_MODERATE]
             ELSE [ok |-> FALSE, just |-> JUST_EN_LOW]

JUST_RADII_MISSING == "Insufficient radii data."
JUST_RATIO_IN == "within stable window."
JUST_RATIO_OUT == "outside stable window."

\* IONIC_RADII_PM.get(e) is truthy
HasRadius(e) == e \in DOMAIN IONIC_RADII_PM /\ IONIC_RADII_PM[e] # 0

\* 0.3 <= rc / ra <= 0.7, in tenths
RATIO_MIN_TENTHS == 3
RATIO_MAX_TENTHS == 7

\* crystal_rules_feasibility dividing the anion radius by the cation radius
crystal_rules_feasibility_InvertedRatio(comp) ==
    LET els == SortedByEN(Keys(comp))
        cations == SelectSeq(CationHalf(els), HasRadius)
        anions == SelectSeq(AnionHalf(els), HasRadius)
    IN  IF cations = <<>> \/ anions = <<>>
        THEN [ok |-> FALSE, just |-> JUST_RADII_MISSING]
        ELSE LET rc == IONIC_RADII_PM[cations[1]]
                 ra == IONIC_RADII_PM[anions[1]]
             IN  IF RATIO_MIN_TENTHS * rc <= 10 * ra /\ 10 * ra <= RATIO_MAX_TENTHS * rc
                 THEN [ok |-> TRUE, just |-> JUST_RATIO_IN]
                 ELSE [ok |-> FALSE, just |-> JUST_RATIO_OUT]

\* crystal_rules_feasibility: (ok, justification)
crystal_rules_feasibility(comp) ==
    LET els == SortedByEN(Keys(comp))
        cations == SelectSeq(CationHalf(els), HasRadius)
        anions == SelectSeq(AnionHalf(els), HasRadius)
    IN  IF cations = <<>> \/ anions = <<>>
        THEN [ok |-> FALSE, just |-> JUST_RADII_MISSING]
        ELSE LET rc == IONIC_RADII_PM[cations[1]]
                 ra == IONIC_RADII_PM[anions[1]]
             IN  IF RATIO_MIN_TENTHS * ra <= 10 * rc /\ 10 * rc <= RATIO_MAX_TENTHS * ra
                 THEN [ok |-> TRUE, just |-> JUST_RATIO_IN]
                 ELSE [ok |-> FALSE, just |-> JUST_RATIO_OUT]

\* re.search(pat, formula) for a literal pattern: pat occurs in the text
Contains(formula, pat) ==
    \E i \in 1..(Len(formula) - Len(pat) + 1) :
        SubSeq(formula, i, i + Len(pat) - 1) = pat

JUST_HALIDE == "Halide family detected; analogues exist."
JUST_OXIDE == "Oxide family detected; analogues exist."
JUST_NO_ANALOGUE == "No clear analogue family detected."

\* analogue_comparison_hint: (ok, justification)
analogue_comparison_hint(formula) ==
    IF Contains(formula, El_Cl) \/ Contains(formula, El_Br) \/ Contains(formula, El_I)
    THEN [ok |-> TRUE, just |-> JUST_HALIDE]
    ELSE IF Contains(formula, El_O) THEN [ok |-> TRUE, just |-> JUST_OXIDE]
    ELSE [ok |-> FALSE, just |-> JUST_NO_ANALOGUE]

(***************************************************************************)
(* The toolkit's Composition(formula), as its callers use it: it raises on *)
(* text that is not wholly made of element tokens (an upper-case letter    *)
(* with its lower-case letters, then an amount) or that names no element;  *)
(* .elements lists the symbols with a non-zero amount in order of first    *)
(* occurrence.                                                             *)
(***************************************************************************)
PMG_ELEMENTS ==
    DOMAIN ELECTRONEGATIVITY \cup {El_Br, El_I, El_Os}

\* first index >= i of f that does not hold a lower-case letter
RECURSIVE LowerEnd(_, _)
LowerEnd(f, i) ==
    IF i <= Len(f) /\ f[i] \in LOWER THEN LowerEnd(f, i + 1) ELSE i

RECURSIVE PmgScan(_, _)
PmgScan(f, i) ==
    IF i > Len(f) THEN [ok |-> TRUE, toks |-> <<>>]
    ELSE IF f[i] \in UPPER
         THEN LET j == LowerEnd(f, i + 1)
                  k == DigitsEnd(f, j)
                  rest == PmgScan(f, k)
              IN  [ok |-> rest.ok /\ SubSeq(f, i, j - 1) \in PMG_ELEMENTS,
                   toks |-> <<[el |-> SubSeq(f, i, j - 1), count |-> SubSeq(f, j, k - 1)]>>
                            \o rest.toks]
         ELSE [ok |-> FALSE, toks |-> <<>>]

\* Composition(formula) does not raise
PmgValid(formula) == formula # <<>> /\ PmgScan(formula, 1).ok

\* [el.symbol for el in Composition(formula).elements]
PmgElements(formula) ==
    Keys(SelectSeq(FoldTokens(PmgScan(formula, 1).toks, <<>>), LAMBDA c : c.n > 0))

(***************************************************************************)
(* Competing-phase catalogue and its lookup                                *)
(***************************************************************************)
Phase(name, millis) == [phase |-> name, energy |-> millis]

\* keys exactly as the source writes them
COMPETING_PHASES_LIBRARY ==
    (<<El_Cu, El_Cl>> :>
        <<Phase("Cu", 0), Phase("Cl2", 0), Phase("CuCl", -800), Phase("CuCl2", -600)>>) @@
    (<<El_Na, El_Al, El_Si, El_O>> :>
        <<Phase("Na", 0), Phase("Al", 0), Phase("Si", 0), Phase("O2", 0),
          Phase("Na2O", -1200), Phase("Al2O3", -1500), Phase("SiO2", -1600)>>) @@
    (<<El_Fe, El_O>> :>
        <<Phase("Fe", 0), Phase("O2", 0), Phase("FeO", -1000), Phase("Fe2O3", -1200)>>) @@
    (<<El_Mg, El_O>> :>
        <<Phase("Mg", 0), Phase("O2", 0), Phase("MgO", -1100)>>) @@
    (<<El_Si, El_O>> :>
        <<Phase("Si", 0), Phase("O2", 0), Phase("SiO2", -1600)>>) @@
    (<<El_Na, El_Cl>> :>
        <<Phase("Na", 0), Phase("Cl2", 0), Phase("NaCl", -900)>>)

\* insert x into the sequence s sorted by str order
RECURSIVE InsertAlpha(_, _)
InsertAlpha(x, s) ==
    IF s = <<>> THEN <<x>>
    ELSE IF StrLess(x, Head(s)) THEN <<x>> \o s
    ELSE <<Head(s)>> \o InsertAlpha(x, Tail(s))

\* sorted(symbols)
RECURSIVE SortedAlpha(_)
SortedAlpha(s) ==
    IF s = <<>> THEN <<>>
    ELSE InsertAlpha(s[Len(s)], SortedAlpha(SubSeq(s, 1, Len(s) - 1)))

\* system_key = tuple(sorted([el.symbol for el in comp.elements]))
SystemKey(formula) == SortedAlpha(PmgElements(formula))

\* get_competing_phases, for a formula Composition() accepts
get_competing_phases(formula) ==
    IF SystemKey(formula) \in DOMAIN COMPETING_PHASES_LIBRARY
    THEN COMPETING_PHASES_LIBRARY[SystemKey(formula)]
    ELSE <<>>

(***************************************************************************)
(* The structure builder bound to the name at call time (the second        *)
(* definition of generate_prototype_structure): a two-site rock-salt cell. *)
(***************************************************************************)
RADIUS_DEFAULT == 100
LATTICE_MIN == 450

Radius(e) == IF e \in DOMAIN IONIC_RADII_PM THEN IONIC_RADII_PM[e] ELSE RADIUS_DEFAULT

\* [raised, value]: raises when Composition() raises or elements[0] does not exist
generate_prototype_structure(formula) ==
    IF ~PmgValid(formula) \/ PmgElements(formula) = <<>>
    THEN [raised |-> TRUE, value |-> None]
    ELSE LET elements == SortedByEN(PmgElements(formula))
             cation == elements[1]
             anion == elements[Len(elements)]
             sum == Radius(cation) + Radius(anion)
         IN  [raised |-> FALSE,
              value |-> Some([species |-> <<cation, anion>>,
                              a |-> IF sum > LATTICE_MIN THEN sum ELSE LATTICE_MIN])]

(***************************************************************************)
(* Energy oracle and hull calculator: what the external predictor and the  *)
(* external phase diagram answer is an input of the evaluation.            *)
(***************************************************************************)
FE_VALUES == {-500, 0, 500}

EHULL_VALUES == {0, 100, 101, 200, 201}

ORACLE_FAILURES == {"load_failed", "predict_raised", "not_a_number"}

ORACLE_OUTCOMES ==
    {[kind |-> "ok", value |-> v] : v \in FE_VALUES}
    \cup {[kind |-> k, value |-> 0] : k \in ORACLE_FAILURES}

HULL_OUTCOMES ==
    {[kind |-> "ok", value |-> v] : v \in EHULL_VALUES}
    \cup {[kind |-> "raised", value |-> 0]}

\* safe_predict_energy returning 0.0 instead of None when the prediction fails
safe_predict_energy_ZeroOnFailure(o) == IF o.kind = "ok" THEN Some(o.value) ELSE Some(0)

\* safe_predict_energy: every exception becomes None
safe_predict_energy(o) == IF o.kind = "ok" THEN Some(o.value) ELSE None

MSG_FE_PREDICTED == "M3GNet predicted formation energy"
MSG_FE_FAILED == "M3GNet prediction failed: dtype mismatch or other error."
MSG_FE_NO_STRUCTURE == "No structure available; cannot run M3GNet."
MSG_FE_EXCEPTION == "M3GNet prediction failed: exception"
MSG_EHULL == "Ehull"
MSG_EHULL_FAILED == "Ehull computation failed"
MSG_NO_PHASES == "No competing phases available for this system."

\* predict_formation_energy: (energy, message)
predict_formation_energy(o) ==
    IF safe_predict_energy(o) # None
    THEN [energy |-> safe_predict_energy(o), msg |-> MSG_FE_PREDICTED]
    ELSE [energy |-> None, msg |-> MSG_FE_FAILED]

\* compute_ehull: (ehull, message); every exception becomes None
compute_ehull(h) ==
    IF h.kind = "ok" THEN [ehull |-> Some(h.value), msg |-> MSG_EHULL]
    ELSE [ehull |-> None, msg |-> MSG_EHULL_FAILED]

(***************************************************************************)
(* Decisions, results and the verdict table                                *)
(***************************************************************************)
NAME_VETO == "Stoichiometry Veto"
NAME_EN == "Electronegativity"
NAME_ANALOGUES == "Analogues"
NAME_CRYSTAL == "Crystal Chemistry Rules"
NAME_FE == "Formation Energy (M3GNet)"
NAME_EHULL == "Convex Hull Stability (Ehull)"

ParameterDecision(name, ok, justification) ==
    [name |-> name, ok |-> ok, justification |-> justification]

\* one line of the reasoning list: "name: Yes|No - justification"
ReasoningLine(d) ==
    [name |-> d.name, mark |-> IF d.ok THEN "Yes" ELSE "No", text |-> d.justification]

SimulationResult(verdict, reasoning, fe, eh) ==
    [mode |-> "simulation", verdict |-> verdict, reasoning |-> reasoning,
     details |-> [formation_energy_ev_per_atom |-> fe, ehull_ev_per_atom |-> eh]]

EHULL_FEASIBLE_MAX == 100
EHULL_METASTABLE_MAX == 200
FILTERS_PASS_MIN == 2
FILTERS_FAIL_GATE == 2

\* VerdictOf with the hull thresholds compared by < instead of <=
VerdictOf_StrictHull(eh, fe, fpass) ==
    IF eh # None
    THEN IF eh[1] < EHULL_FEASIBLE_MAX THEN "Feasible"
         ELSE IF eh[1] < EHULL_METASTABLE_MAX THEN "Metastable"
         ELSE "Not feasible"
    ELSE IF fe # None /\ fe[1] < 0 THEN "Feasible"
         ELSE IF fpass >= FILTERS_PASS_MIN THEN "Metastable" ELSE "Uncertain"

\* VerdictOf with the formation energy compared by <= 0 instead of < 0
VerdictOf_NonPositive(eh, fe, fpass) ==
    IF eh # None
    THEN IF eh[1] <= EHULL_FEASIBLE_MAX THEN "Feasible"
         ELSE IF eh[1] <= EHULL_METASTABLE_MAX THEN "Metastable"
         ELSE "Not feasible"
    ELSE IF fe # None /\ fe[1] <= 0 THEN "Feasible"
         ELSE IF fpass >= FILTERS_PASS_MIN THEN "Metastable" ELSE "Uncertain"

\* VerdictOf with the two outcomes of the last test exchanged
VerdictOf_SwappedFallback(eh, fe, fpass) ==
    IF eh # None
    THEN IF eh[1] <= EHULL_FEASIBLE_MAX THEN "Feasible"
         ELSE IF eh[1] <= EHULL_METASTABLE_MAX THEN "Metastable"
         ELSE "Not feasible"
    ELSE IF fe # None /\ fe[1] < 0 THEN "Feasible"
         ELSE IF fpass >= FILTERS_PASS_MIN THEN "Uncertain" ELSE "Metastable"

\* VerdictOf that lets a positive formation energy overrule the hull value
VerdictOf_EnergyVeto(eh, fe, fpass) ==
    IF fe # None /\ fe[1] > 0 THEN "Not feasible"
    ELSE IF eh # None
    THEN IF eh[1] <= EHULL_FEASIBLE_MAX THEN "Feasible"
         ELSE IF eh[1] <= EHULL_METASTABLE_MAX THEN "Metastable"
         ELSE "Not feasible"
    ELSE IF fe # None /\ fe[1] < 0 THEN "Feasible"
         ELSE IF fpass >= FILTERS_PASS_MIN THEN "Metastable" ELSE "Uncertain"

\* the verdict assembly at the end of run_simulation_agent
VerdictOf(eh, fe, fpass) ==
    IF eh # None
    THEN IF eh[1] <= EHULL_FEASIBLE_MAX THEN "Feasible"
         ELSE IF eh[1] <= EHULL_METASTABLE_MAX THEN "Metastable"
         ELSE "Not feasible"
    ELSE IF fe # None /\ fe[1] < 0 THEN "Feasible"
         ELSE IF fpass >= FILTERS_PASS_MIN THEN "Metastable" ELSE "Uncertain"

(***************************************************************************)
(* Inputs: formula strings spelled from a few element symbols, digits and  *)
(* a character that belongs to no token                                    *)
(***************************************************************************)
MaxPieces == 3

PIECES == {El_Na, El_Cl, El_Mg, El_O, El_Fe, El_Cu, El_Si, El_H, El_I, El_Os,
           <<"0">>, <<"2">>, <<"3">>, <<"x">>}

LONG_FORMULAS == {El_Na \o El_Al \o El_Si \o El_O \o <<"4">>,
                  El_Al \o <<"2">> \o El_O \o <<"3">>}

RECURSIVE FormulasUpTo(_)
FormulasUpTo(n) ==
    IF n = 0 THEN {<<>>}
    ELSE LET prev == FormulasUpTo(n - 1)
         IN  prev \cup {f \o p : f \in prev, p \in PIECES}

Formulas == FormulasUpTo(MaxPieces) \cup LONG_FORMULAS

(***************************************************************************)
(* run_simulation_agent(formula), stage by stage                           *)
(***************************************************************************)
VARIABLES formula, pc, composition, decisions, filters_pass, structure,
          est_fe, competing_phases, ehull, result, calls,
          oracle_resp, hull_resp, run, first

\* the state of one /api/analyze request: the request body, the position of
\* the endpoint and of its response generator, the position of the pipeline
\* thread, the locals parsed and is_db_hit of run_pipeline, the puts
\* scheduled on the event loop, the queue, everything the thread handed to
\* the loop so far, the chunks the generator yielded, the collaborator calls
VARIABLES request, handler, thread, parsed, is_db_hit, pending, queue,
          put_log, yielded, steps

api_vars == <<request, handler, thread, parsed, is_db_hit, pending, queue,
              put_log, yielded, steps>>

\* the state of one run of the pipeline graph: the PipelineState dict, the
\* node to run next, the nodes run so far, what a routing function returned
VARIABLES state, node, visited, route

graph_vars == <<state, node, visited, route>>

\* the state of a RuleStorage: the content of extracted_rules.json, what the
\* last save_rules call returned, how many calls were made, and the last
\* call's argument with the content it found
VARIABLES rules_file, returned, saves, last_call

store_vars == <<rules_file, returned, saves, last_call>>

\* the variables of run_simulation_agent
agent_vars == <<formula, pc, composition, decisions, filters_pass, structure,
                est_fe, competing_phases, ehull, result, calls,
                oracle_resp, hull_resp, run, first>>

\* the variables of the programs run_simulation_agent has no part in
other_programs == <<api_vars, graph_vars, store_vars>>

vars == <<agent_vars, other_programs>>

\* no request has arrived
ApiIdle ==
    /\ request = "none"
    /\ handler = "idle"
    /\ thread = "idle"
    /\ parsed = <<>>
    /\ is_db_hit = FALSE
    /\ pending = <<>>
    /\ queue = <<>>
    /\ put_log = <<>>
    /\ yielded = <<>>
    /\ steps = <<>>

\* no graph run has started
GraphIdle ==
    /\ state = <<>>
    /\ node = "idle"
    /\ visited = <<>>
    /\ route = <<>>

\* no RuleStorage exists
StoreIdle ==
    /\ rules_file = <<>>
    /\ returned = <<>>
    /\ saves = 0
    /\ last_call = <<>>

OtherProgramsIdle == ApiIdle /\ GraphIdle /\ StoreIdle

\* what the external predictor and the external phase diagram answered in
\* this call, if they were asked
responses == <<oracle_resp, hull_resp>>

\* which call of a sequence of calls this is, and the record of the first one
sequel == <<run, first>>

NoFirst == [formula |-> <<>>, result |-> None, oracle |-> None, hull |-> None,
            other |-> <<>>]

Init ==
    /\ formula \in Formulas
    /\ pc = "veto"
    /\ composition = <<>>
    /\ decisions = <<>>
    /\ filters_pass = 0
    /\ structure = None
    /\ est_fe = None
    /\ competing_phases = <<>>
    /\ ehull = None
    /\ result = None
    /\ calls = <<>>
    /\ oracle_resp = None
    /\ hull_resp = None
    /\ run = 1
    /\ first = NoFirst
    /\ OtherProgramsIdle

\* the early return of step 1: one line, written as "No"
VetoReturn(ds) ==
    SimulationResult("Not feasible",
                     <<[name |-> ds[1].name, mark |-> "No", text |-> ds[1].justification]>>,
                     None, None)

\* Veto without the early return: a failed veto goes on to the soft filters
Veto_NoEarlyReturn ==
    /\ pc = "veto"
    /\ LET comp == parse_formula(formula)
           v == check_stoichiometry_veto(comp)
       IN  /\ composition' = comp
           /\ decisions' = <<ParameterDecision(NAME_VETO, v.ok, v.just)>>
           /\ calls' = calls \o <<"parse_formula", "check_stoichiometry_veto">>
           /\ pc' = "filters"
    /\ UNCHANGED <<formula, filters_pass, structure, est_fe, competing_phases, ehull, result,
                   responses, sequel, other_programs>>

\* Veto with the decision list kept across calls: the new veto decision is
\* appended to the list the last call left
Veto_SharedTrail ==
    /\ pc = "veto"
    /\ LET comp == parse_formula(formula)
           v == check_stoichiometry_veto(comp)
           ds == decisions \o <<ParameterDecision(NAME_VETO, v.ok, v.just)>>
       IN  /\ composition' = comp
           /\ decisions' = ds
           /\ calls' = calls \o <<"parse_formula", "check_stoichiometry_veto">>
           /\ IF ~v.ok
              THEN /\ result' = Some(VetoReturn(ds))
                   /\ pc' = "done"
              ELSE /\ result' = result
                   /\ pc' = "filters"
    /\ UNCHANGED <<formula, filters_pass, structure, est_fe, competing_phases, ehull,
                   responses, sequel, other_programs>>

\* step 1: parse, veto, return at once when the veto fails
Veto ==
    /\ pc = "veto"
    /\ LET comp == parse_formula(formula)
           v == check_stoichiometry_veto(comp)
           ds == <<ParameterDecision(NAME_VETO, v.ok, v.just)>>
       IN  /\ composition' = comp
           /\ decisions' = ds
           /\ calls' = calls \o <<"parse_formula", "check_stoichiometry_veto">>
           /\ IF ~v.ok
              THEN /\ result' = Some(VetoReturn(ds))
                   /\ pc' = "done"
              ELSE /\ result' = result
                   /\ pc' = "filters"
    /\ UNCHANGED <<formula, filters_pass, structure, est_fe, competing_phases, ehull,
                   responses, sequel, other_programs>>

\* the early return of step 2: the whole trail so far
GateReturn(ds) ==
    SimulationResult("Not feasible", [i \in 1..Len(ds) |-> ReasoningLine(ds[i])], None, None)

\* CountOk summing over decisions instead of decisions[1:]
CountOk_WithVeto(ds) == Len(SelectSeq(ds, LAMBDA d : d.ok))

\* sum(1 for d in decisions[1:] if d.ok)
CountOk(ds) == Len(SelectSeq(Tail(ds), LAMBDA d : d.ok))

\* step 2: the three soft filters and the 2-of-3 gate
SoftFilters ==
    /\ pc = "filters"
    /\ LET en == electronegativity_trend(composition)
           an == analogue_comparison_hint(formula)
           cr == crystal_rules_feasibility(composition)
           ds == decisions \o <<ParameterDecision(NAME_EN, en.ok, en.just),
                                ParameterDecision(NAME_ANALOGUES, an.ok, an.just),
                                ParameterDecision(NAME_CRYSTAL, cr.ok, cr.just)>>
           filters_fail == Len(Tail(ds)) - CountOk(ds)
       IN  /\ decisions' = ds
           /\ filters_pass' = CountOk(ds)
           /\ calls' = calls \o <<"electronegativity_trend", "analogue_comparison_hint",
                                  "crystal_rules_feasibility">>
           /\ IF filters_fail >= FILTERS_FAIL_GATE
              THEN /\ result' = Some(GateReturn(ds))
                   /\ pc' = "done"
              ELSE /\ result' = result
                   /\ pc' = "build"
    /\ UNCHANGED <<formula, composition, structure, est_fe, competing_phases, ehull,
                   responses, sequel, other_programs>>

\* TRY_BLOCK with the builder called before the try statement
TRY_BLOCK_BuilderOutside == {"predict_formation_energy", "get_competing_phases", "compute_ehull"}

\* the calls of step 3 that the try block encloses; an exception raised by any
\* other call leaves run_simulation_agent (pc = "raised")
TRY_BLOCK == {"generate_prototype_structure", "predict_formation_energy",
              "get_competing_phases", "compute_ehull"}

\* the except clause: one failed Formation Energy decision
ExceptDecision == ParameterDecision(NAME_FE, FALSE, MSG_FE_EXCEPTION)

\* step 3, first part: est_fe and ehull start as None, then the builder call
\* and the branch on its result
Build ==
    /\ pc = "build"
    /\ est_fe' = None
    /\ ehull' = None
    /\ LET b == generate_prototype_structure(formula)
       IN  /\ calls' = Append(calls, "generate_prototype_structure")
           /\ structure' = b.value
           /\ IF b.raised
              THEN IF "generate_prototype_structure" \in TRY_BLOCK
                   THEN /\ decisions' = Append(decisions, ExceptDecision)
                        /\ pc' = "verdict"
                   ELSE /\ decisions' = decisions
                        /\ pc' = "raised"
              ELSE IF b.value = None
              THEN /\ decisions' = Append(decisions,
                                          ParameterDecision(NAME_FE, FALSE, MSG_FE_NO_STRUCTURE))
                   /\ pc' = "verdict"
              ELSE /\ decisions' = decisions
                   /\ pc' = "oracle"
    /\ UNCHANGED <<formula, composition, filters_pass, competing_phases, result,
                   responses, sequel, other_programs>>

\* the answers the predictor can give: any, or in the repeated call of a
\* sequence the answer it gave the first time
OracleAnswers ==
    IF run = 3 /\ first.oracle # None THEN {first.oracle[1]} ELSE ORACLE_OUTCOMES

\* the answers the phase diagram can give, likewise
HullAnswers ==
    IF run = 3 /\ first.hull # None THEN {first.hull[1]} ELSE HULL_OUTCOMES

\* HullApplies without the test of est_fe
HullApplies_IgnoresEnergy(phases, fe) == phases # <<>>

\* if competing_phases and est_fe is not None
HullApplies(phases, fe) == phases # <<>> /\ fe # None

\* Oracle that asks the predictor a second time when the first call failed
Oracle_Retry ==
    /\ pc = "oracle"
    /\ \E o \in OracleAnswers :
          LET p == predict_formation_energy(o)
              fe_dec == ParameterDecision(NAME_FE, p.energy # None /\ p.energy[1] < 0, p.msg)
          IN  /\ est_fe' = p.energy
              /\ oracle_resp' = Some(o)
              /\ calls' = calls \o
                    (IF p.energy = None
                     THEN <<"predict_formation_energy", "predict_formation_energy",
                            "get_competing_phases">>
                     ELSE <<"predict_formation_energy", "get_competing_phases">>)
              /\ IF ~PmgValid(formula)
                 THEN /\ competing_phases' = competing_phases
                      /\ decisions' = decisions \o <<fe_dec, ExceptDecision>>
                      /\ pc' = "verdict"
                 ELSE /\ competing_phases' = get_competing_phases(formula)
                      /\ IF HullApplies(competing_phases', p.energy)
                         THEN /\ decisions' = Append(decisions, fe_dec)
                              /\ pc' = "hull"
                         ELSE /\ decisions' = decisions \o
                                    <<fe_dec, ParameterDecision(NAME_EHULL, FALSE, MSG_NO_PHASES)>>
                              /\ pc' = "verdict"
    /\ UNCHANGED <<formula, composition, filters_pass, structure, ehull, result,
                   hull_resp, sequel, other_programs>>

\* step 3, second part: the oracle call, its decision, the catalogue lookup
Oracle ==
    /\ pc = "oracle"
    /\ calls' = calls \o <<"predict_formation_energy", "get_competing_phases">>
    /\ \E o \in OracleAnswers :
          LET p == predict_formation_energy(o)
              fe_dec == ParameterDecision(NAME_FE, p.energy # None /\ p.energy[1] < 0, p.msg)
          IN  /\ est_fe' = p.energy
              /\ oracle_resp' = Some(o)
              /\ IF ~PmgValid(formula)
                 THEN /\ competing_phases' = competing_phases
                      /\ IF "get_competing_phases" \in TRY_BLOCK
                         THEN /\ decisions' = decisions \o <<fe_dec, ExceptDecision>>
                              /\ pc' = "verdict"
                         ELSE /\ decisions' = Append(decisions, fe_dec)
                              /\ pc' = "raised"
                 ELSE /\ competing_phases' = get_competing_phases(formula)
                      /\ IF HullApplies(competing_phases', p.energy)
                         THEN /\ decisions' = Append(decisions, fe_dec)
                              /\ pc' = "hull"
                         ELSE /\ decisions' = decisions \o
                                    <<fe_dec, ParameterDecision(NAME_EHULL, FALSE, MSG_NO_PHASES)>>
                              /\ pc' = "verdict"
    /\ UNCHANGED <<formula, composition, filters_pass, structure, ehull, result,
                   hull_resp, sequel, other_programs>>

\* HullDecision recording a decision only when a hull value came back
HullDecision_OnlyOnSuccess(c) ==
    IF c.ehull = None THEN <<>>
    ELSE <<ParameterDecision(NAME_EHULL, c.ehull[1] <= EHULL_METASTABLE_MAX, c.msg)>>

\* HullDecision marking only hull values up to the Feasible threshold as passed
HullDecision_FeasibleOnly(c) ==
    <<ParameterDecision(NAME_EHULL,
                        c.ehull # None /\ c.ehull[1] <= EHULL_FEASIBLE_MAX, c.msg)>>

\* the decision appended after compute_ehull returned
HullDecision(c) ==
    <<ParameterDecision(NAME_EHULL,
                        c.ehull # None /\ c.ehull[1] <= EHULL_METASTABLE_MAX, c.msg)>>

\* step 3, third part: the hull placement and its decision
Hull ==
    /\ pc = "hull"
    /\ \E h \in HullAnswers :
          LET c == compute_ehull(h)
          IN  /\ ehull' = c.ehull
              /\ hull_resp' = Some(h)
              /\ decisions' = decisions \o HullDecision(c)
    /\ calls' = Append(calls, "compute_ehull")
    /\ pc' = "verdict"
    /\ UNCHANGED <<formula, composition, filters_pass, structure, est_fe,
                   competing_phases, result, oracle_resp, sequel, other_programs>>

\* verdict assembly and the final return
Synthesize ==
    /\ pc = "verdict"
    /\ result' = Some(SimulationResult(VerdictOf(ehull, est_fe, filters_pass),
                                       [i \in 1..Len(decisions) |-> ReasoningLine(decisions[i])],
                                       est_fe, ehull))
    /\ pc' = "done"
    /\ UNCHANGED <<formula, composition, decisions, filters_pass, structure,
                   est_fe, competing_phases, ehull, calls, responses, sequel, other_programs>>

Next == Veto \/ SoftFilters \/ Build \/ Oracle \/ Hull \/ Synthesize

Spec == Init /\ [][Next]_vars

-----------------------------------------------------------------------------
\* Three calls in a row, as the loop over test_formulas makes them: a formula,
\* then another formula, then the first formula again with the collaborators
\* answering as they did the first time.  The variables that model the locals
\* of a call keep the values the last call left: a call that read one of them
\* before writing it would see the last call's value.

MaxPiecesTwice == 2

\* the formula evaluated in between
OTHER_FORMULAS == {El_Mg \o El_O, El_Cu \o El_Cl, El_Fe \o <<"2">> \o El_O \o <<"3">>}

InitTwice ==
    /\ formula \in FormulasUpTo(MaxPiecesTwice)
    /\ pc = "veto"
    /\ composition = <<>>
    /\ decisions = <<>>
    /\ filters_pass = 0
    /\ structure = None
    /\ est_fe = None
    /\ competing_phases = <<>>
    /\ ehull = None
    /\ result = None
    /\ calls = <<>>
    /\ oracle_resp = None
    /\ hull_resp = None
    /\ run = 1
    /\ first = NoFirst
    /\ OtherProgramsIdle

\* the call has returned and the next call of the loop starts
NextCall ==
    /\ pc = "done"
    /\ run < 3
    /\ run' = run + 1
    /\ IF run = 1
       THEN \E g \in OTHER_FORMULAS :
               /\ formula' = g
               /\ first' = [formula |-> formula, result |-> result,
                            oracle |-> oracle_resp, hull |-> hull_resp, other |-> g]
       ELSE /\ formula' = first.formula
            /\ first' = first
    /\ pc' = "veto"
    /\ calls' = <<>>
    /\ result' = None
    /\ oracle_resp' = None
    /\ hull_resp' = None
    /\ UNCHANGED <<composition, decisions, filters_pass, structure, est_fe,
                   competing_phases, ehull, other_programs>>

NextTwice == Next \/ NextCall

SpecTwice == InitTwice /\ [][NextTwice]_vars

-----------------------------------------------------------------------------
\* The three soft filters called on their own: one behaviour is one formula
\* text, parsed, and then handed to one of the three filter functions.

MaxSymbols == 2

SYMBOLS == {El_H, El_Li, El_Be, El_B, El_C, El_N, El_O, El_F, El_Na, El_Mg,
            El_Al, El_Si, El_P, El_S, El_Cl, El_K, El_Ca, El_Fe, El_Cu, El_Zn,
            El_Br, El_I, El_Os}

\* texts of three and four symbols whose halves hold elements without a radius
LONG_TEXTS == {El_Mg \o El_Br \o El_O,
               El_Br \o El_O \o El_Mg \o El_K,
               El_Os \o El_S \o <<"2">>,
               El_Na \o El_Al \o El_Si \o El_O \o <<"4">>}

RECURSIVE SymbolTexts(_)
SymbolTexts(n) ==
    IF n = 0 THEN {<<>>}
    ELSE LET prev == SymbolTexts(n - 1)
         IN  prev \cup {f \o p : f \in prev, p \in SYMBOLS}

FilterTexts == SymbolTexts(MaxSymbols) \cup LONG_TEXTS

InitFilters ==
    /\ formula \in FilterTexts
    /\ pc = "unit"
    /\ composition = <<>>
    /\ decisions = <<>>
    /\ filters_pass = 0
    /\ structure = None
    /\ est_fe = None
    /\ competing_phases = <<>>
    /\ ehull = None
    /\ result = None
    /\ calls = <<>>
    /\ oracle_resp = None
    /\ hull_resp = None
    /\ run = 1
    /\ first = NoFirst
    /\ OtherProgramsIdle

\* composition = parse_formula(formula)
ParseUnit ==
    /\ pc = "unit"
    /\ composition' = parse_formula(formula)
    /\ calls' = Append(calls, "parse_formula")
    /\ pc' = "parsed"
    /\ UNCHANGED <<formula, decisions, filters_pass, structure, est_fe,
                   competing_phases, ehull, result, responses, sequel, other_programs>>

\* electronegativity_trend(composition); max() of no values raises
ApplyEN ==
    /\ pc = "parsed"
    /\ calls' = Append(calls, "electronegativity_trend")
    /\ IF composition = <<>>
       THEN /\ decisions' = decisions
            /\ pc' = "raised"
       ELSE /\ LET en == electronegativity_trend(composition)
               IN  decisions' = <<ParameterDecision(NAME_EN, en.ok, en.just)>>
            /\ pc' = "returned"
    /\ UNCHANGED <<formula, composition, filters_pass, structure, est_fe,
                   competing_phases, ehull, result, responses, sequel, other_programs>>

\* analogue_comparison_hint(formula)
ApplyAnalogue ==
    /\ pc = "parsed"
    /\ calls' = Append(calls, "analogue_comparison_hint")
    /\ LET an == analogue_comparison_hint(formula)
       IN  decisions' = <<ParameterDecision(NAME_ANALOGUES, an.ok, an.just)>>
    /\ pc' = "returned"
    /\ UNCHANGED <<formula, composition, filters_pass, structure, est_fe,
                   competing_phases, ehull, result, responses, sequel, other_programs>>

\* crystal_rules_feasibility(composition)
ApplyCrystal ==
    /\ pc = "parsed"
    /\ calls' = Append(calls, "crystal_rules_feasibility")
    /\ LET cr == crystal_rules_feasibility(composition)
       IN  decisions' = <<ParameterDecision(NAME_CRYSTAL, cr.ok, cr.just)>>
    /\ pc' = "returned"
    /\ UNCHANGED <<formula, composition, filters_pass, structure, est_fe,
                   competing_phases, ehull, result, responses, sequel, other_programs>>

NextFilters == ParseUnit \/ ApplyEN \/ ApplyAnalogue \/ ApplyCrystal

SpecFilters == InitFilters /\ [][NextFilters]_vars

-----------------------------------------------------------------------------
\* The API server: one /api/analyze request.  The endpoint starts the
\* pipeline thread and returns the response generator; the thread hands every
\* chunk, and at the end the sentinel None, to the event loop, which puts
\* them on the queue in the order they were handed over; the generator takes
\* them off the queue.

\* run_simulation_agent is not running
AgentIdle ==
    /\ formula = <<>>
    /\ pc = "idle"
    /\ composition = <<>>
    /\ decisions = <<>>
    /\ filters_pass = 0
    /\ structure = None
    /\ est_fe = None
    /\ competing_phases = <<>>
    /\ ehull = None
    /\ result = None
    /\ calls = <<>>
    /\ oracle_resp = None
    /\ hull_resp = None
    /\ run = 1
    /\ first = NoFirst

\* the request bodies: not JSON, JSON without a material name, JSON with one
REQUESTS == {"invalid_json", "no_material_name", "material_name"}

\* what parse_dataset can do: raise, or return a dict with these keys
LOOKUP_OUTCOMES ==
    {[raised |-> TRUE, keys |-> {}]} \cup
    {[raised |-> FALSE, keys |-> k] :
        k \in {{}, {"band_gap"}, {"material_id"}, {"formula_pretty"},
               {"material_id", "formula_pretty", "band_gap"}}}

\* is_db_hit with "and" between the two key tests
DbHit_BothKeys(keys) ==
    ("material_id" \in keys /\ "formula_pretty" \in keys) /\ Cardinality(keys) > 0

\* isinstance(parsed, dict) and ("material_id" in parsed or "formula_pretty"
\* in parsed) and len(parsed) > 0, for the dict with these keys
DbHit(keys) ==
    ("material_id" \in keys \/ "formula_pretty" \in keys) /\ Cardinality(keys) > 0

InitServer ==
    /\ request \in REQUESTS
    /\ handler = "request"
    /\ thread = "idle"
    /\ parsed = None
    /\ is_db_hit = FALSE
    /\ pending = <<>>
    /\ queue = <<>>
    /\ put_log = <<>>
    /\ yielded = <<>>
    /\ steps = <<>>
    /\ AgentIdle
    /\ GraphIdle
    /\ StoreIdle

\* asyncio.run_coroutine_threadsafe(queue.put(item), loop)
Schedule(item) ==
    /\ pending' = Append(pending, item)
    /\ put_log' = Append(put_log, item)

\* callback(chunk)
Emit(chunk) == Schedule(Some(chunk))

\* a collaborator call and whether it raised
Step(call, raised) == steps' = Append(steps, [call |-> call, raised |-> raised])

\* the endpoint up to its return: the two early returns, or the thread is
\* started and the StreamingResponse returned
Endpoint ==
    /\ handler = "request"
    /\ IF request = "material_name"
       THEN handler' = "streaming" /\ thread' = "step1"
       ELSE handler' = "rejected" /\ thread' = thread
    /\ UNCHANGED <<request, parsed, is_db_hit, pending, queue, put_log, yielded, steps,
                   agent_vars, graph_vars, store_vars>>

\* run_pipeline, line 106
Step1 ==
    /\ thread = "step1"
    /\ Emit("Step 1: Parsing dataset")
    /\ thread' = "lookup"
    /\ UNCHANGED <<request, handler, parsed, is_db_hit, queue, yielded, steps,
                   agent_vars, graph_vars, store_vars>>

\* run_pipeline, lines 107-115
Lookup ==
    /\ thread = "lookup"
    /\ \E o \in LOOKUP_OUTCOMES :
          /\ Step("parse_dataset", o.raised)
          /\ IF o.raised
             THEN /\ Emit("Data lookup failed")
                  /\ parsed' = None
                  /\ is_db_hit' = FALSE
             ELSE /\ UNCHANGED <<pending, put_log>>
                  /\ parsed' = Some(o.keys)
                  /\ is_db_hit' = DbHit(o.keys)
    /\ thread' = "route"
    /\ UNCHANGED <<request, handler, queue, yielded,
                   agent_vars, graph_vars, store_vars>>

\* run_pipeline, lines 117-118 and 131
Route ==
    /\ thread = "route"
    /\ IF is_db_hit
       THEN Emit("Step 2: Analyzing results") /\ thread' = "analyze"
       ELSE Emit("Database miss") /\ thread' = "simulate"
    /\ UNCHANGED <<request, handler, parsed, is_db_hit, queue, yielded, steps,
                   agent_vars, graph_vars, store_vars>>

\* run_pipeline, lines 119-121
Analyze ==
    /\ thread = "analyze"
    /\ \E raised \in BOOLEAN :
          /\ Step("analyze_material", raised)
          /\ IF raised
             THEN UNCHANGED <<pending, put_log>> /\ thread' = "except"
             ELSE Emit("Step 3: Generating hypothesis") /\ thread' = "hypothesize"
    /\ UNCHANGED <<request, handler, parsed, is_db_hit, queue, yielded,
                   agent_vars, graph_vars, store_vars>>

\* run_pipeline, line 122
Hypothesize ==
    /\ thread = "hypothesize"
    /\ \E raised \in BOOLEAN :
          /\ Step("generate_hypothesis", raised)
          /\ thread' = IF raised THEN "except" ELSE "assemble"
    /\ UNCHANGED <<request, handler, parsed, is_db_hit, pending, queue, put_log, yielded,
                   agent_vars, graph_vars, store_vars>>

\* run_pipeline, lines 124-128
Assemble ==
    /\ thread = "assemble"
    /\ \E raised \in BOOLEAN :
          /\ Step("assemble_markdown", raised)
          /\ IF raised
             THEN UNCHANGED <<pending, put_log>> /\ thread' = "except"
             ELSE Emit("markdown_output") /\ thread' = "finally"
    /\ UNCHANGED <<request, handler, parsed, is_db_hit, queue, yielded,
                   agent_vars, graph_vars, store_vars>>

\* run_pipeline, lines 132-139; the engine is taken as a collaborator that
\* returns a result or raises
Simulate ==
    /\ thread = "simulate"
    /\ \E raised \in BOOLEAN :
          /\ Step("run_simulation_agent", raised)
          /\ IF raised
             THEN UNCHANGED <<pending, put_log>> /\ thread' = "except"
             ELSE Emit("sim_markdown") /\ thread' = "finally"
    /\ UNCHANGED <<request, handler, parsed, is_db_hit, queue, yielded,
                   agent_vars, graph_vars, store_vars>>

\* the except clause of the wrapper with the sentinel sent only at the end of
\* the try body: after the error chunk the thread is done
WrapperExcept_NoFinally ==
    /\ thread = "except"
    /\ Emit("Error in pipeline")
    /\ thread' = "done"
    /\ UNCHANGED <<request, handler, parsed, is_db_hit, queue, yielded, steps,
                   agent_vars, graph_vars, store_vars>>

\* sync_pipeline_wrapper, lines 172-174
WrapperExcept ==
    /\ thread = "except"
    /\ Emit("Error in pipeline")
    /\ thread' = "finally"
    /\ UNCHANGED <<request, handler, parsed, is_db_hit, queue, yielded, steps,
                   agent_vars, graph_vars, store_vars>>

\* sync_pipeline_wrapper, lines 175-177
WrapperFinally ==
    /\ thread = "finally"
    /\ Schedule(None)
    /\ thread' = "done"
    /\ UNCHANGED <<request, handler, parsed, is_db_hit, queue, yielded, steps,
                   agent_vars, graph_vars, store_vars>>

\* the event loop runs the oldest scheduled queue.put
LoopPut ==
    /\ pending # <<>>
    /\ queue' = Append(queue, Head(pending))
    /\ pending' = Tail(pending)
    /\ UNCHANGED <<request, handler, thread, parsed, is_db_hit, put_log, yielded, steps,
                   agent_vars, graph_vars, store_vars>>

\* response_generator, lines 184-192: one turn of the loop
Get ==
    /\ handler = "streaming"
    /\ queue # <<>>
    /\ queue' = Tail(queue)
    /\ IF Head(queue) = None
       THEN handler' = "finished" /\ yielded' = yielded
       ELSE handler' = handler /\ yielded' = Append(yielded, Head(queue)[1])
    /\ UNCHANGED <<request, thread, parsed, is_db_hit, pending, put_log, steps,
                   agent_vars, graph_vars, store_vars>>

NextServer ==
    \/ Endpoint \/ Step1 \/ Lookup \/ Route \/ Analyze \/ Hypothesize \/ Assemble
    \/ Simulate \/ WrapperExcept \/ WrapperFinally \/ LoopPut \/ Get

SpecServer == InitServer /\ [][NextServer]_vars

\* the thread, the event loop and the generator each keep running
SpecServerFair == SpecServer /\ WF_vars(NextServer)

-----------------------------------------------------------------------------
\* The LangGraph pipeline: the state dict, the six nodes, the routing
\* functions and the edges of create_pipeline_graph.  A dict is modelled by
\* its set of keys, an optional value by None or Some(v), a message built
\* with an f-string by the tuple of its fixed part and its argument.

\* the material formulas the graph is run on
GRAPH_FORMULAS == {"NaCl", "Fe2O3", "XyZ"}

\* str(e) of the exceptions the collaborators raise; "" is the text of an
\* exception raised without arguments
EXCEPTION_TEXTS == {"", "failed"}

\* the key sets of the dicts the lookup returns (the empty one stands for
\* every falsy answer, None included)
DATA_KEYSETS ==
    {{}, {"formula_pretty"}, {"material_id"}, {"structure"},
     {"material_id", "structure"}}

\* bool(text) of an optional text
TextTruthy(opt) == opt # None /\ opt[1] # ""

\* bool(d) of an optional dict
DictTruthy(opt) == opt # None /\ opt[1] # {}

create_initial_state(f) ==
    [formula |-> f,
     material_data |-> None,
     lookup_error |-> None,
     material_found |-> FALSE,
     chemistry_valid |-> FALSE,
     validation_errors |-> <<>>,
     analysis |-> None,
     analysis_error |-> None,
     hypotheses |-> <<>>,
     hypotheses_error |-> None,
     formatted_output |-> None,
     pipeline_status |-> "running",
     error_messages |-> <<>>]

\* the names of CHEMISTRY_GUARDRAILS, in list order
CHEMISTRY_GUARDRAILS ==
    <<"Material Has Data", "Has Material ID", "Has Crystal Structure">>

\* rule_func of the guardrail with this name, on a dict with these keys
RuleFunc(name, keys) ==
    CASE name = "Material Has Data" -> keys # {}
      [] name = "Has Material ID" -> "material_id" \in keys \/ "mp_id" \in keys
      [] name = "Has Crystal Structure" ->
             "structure" \in keys \/ "lattice" \in keys \/ "sites" \in keys

\* check_guardrails(CHEMISTRY_GUARDRAILS, properties): messages carry the
\* mark of Guardrail.check ("passed" for the tick, "failed" for the cross)
check_guardrails(keys) ==
    [all_passed |-> \A i \in 1..Len(CHEMISTRY_GUARDRAILS) :
                        RuleFunc(CHEMISTRY_GUARDRAILS[i], keys),
     messages |-> [i \in 1..Len(CHEMISTRY_GUARDRAILS) |->
                      <<IF RuleFunc(CHEMISTRY_GUARDRAILS[i], keys)
                        THEN "passed" ELSE "failed",
                        CHEMISTRY_GUARDRAILS[i]>>]]

IsFailure(msg) == msg[1] = "failed"

\* the messages of a list, each behind the same prefix
Prefixed(prefix, msgs) == [i \in 1..Len(msgs) |-> <<prefix>> \o msgs[i]]

route_after_lookup(s) ==
    IF s.material_found
    THEN [next |-> "validate_chemistry", state |-> s]
    ELSE [next |-> "error",
          state |-> [s EXCEPT !.error_messages =
                        Append(@, <<"Material not found", s.formula>>)]]

\* route_after_validation that sends every state to the analysis
route_after_validation_AlwaysAnalyze(s) == [next |-> "analyze", state |-> s]

route_after_validation(s) ==
    IF s.chemistry_valid
    THEN [next |-> "analyze", state |-> s]
    ELSE [next |-> "error",
          state |-> [s EXCEPT !.error_messages =
                        @ \o Prefixed("Validation failed", s.validation_errors)]]

route_after_analysis(s) ==
    IF DictTruthy(s.analysis) /\ ~TextTruthy(s.analysis_error)
    THEN [next |-> "hypothesize", state |-> s]
    ELSE [next |-> "error",
          state |-> IF TextTruthy(s.analysis_error)
                    THEN [s EXCEPT !.error_messages =
                             Append(@, <<"Analysis error", s.analysis_error[1]>>)]
                    ELSE s]

\* format_node with no except clause: the state the node was given is what
\* is left
FormatFailed_Unhandled(s, text) == s

\* format_node, lines 177-180
FormatFailed(s, text) ==
    [s EXCEPT !.formatted_output = Some("Error formatting output"),
              !.pipeline_status = "error",
              !.error_messages = Append(@, <<"Formatting error", text>>)]

InitGraph ==
    /\ \E f \in GRAPH_FORMULAS : state = create_initial_state(f)
    /\ node = "lookup"
    /\ visited = <<>>
    /\ route = None
    /\ AgentIdle
    /\ ApiIdle
    /\ StoreIdle

\* the node that ran and the node the edges pick next
Visit(name, next) ==
    /\ visited' = Append(visited, name)
    /\ node' = next

lookup_node ==
    /\ node = "lookup"
    /\ \/ \E keys \in DATA_KEYSETS :
             state' = IF keys # {}
                      THEN [state EXCEPT !.material_data = Some(keys),
                                         !.material_found = TRUE,
                                         !.lookup_error = None]
                      ELSE [state EXCEPT !.material_data = None,
                                         !.material_found = FALSE,
                                         !.lookup_error = Some("No data returned from API")]
       \/ \E text \in EXCEPTION_TEXTS :
             state' = [state EXCEPT !.lookup_error = Some(text),
                                    !.material_found = FALSE,
                                    !.material_data = None]
    /\ Visit("lookup", "validate_chemistry")
    /\ UNCHANGED <<route, agent_vars, api_vars, store_vars>>

\* validate_chemistry_node followed by its conditional edge
validate_chemistry_node ==
    /\ node = "validate_chemistry"
    /\ LET checked == check_guardrails(state.material_data[1])
           after == IF ~state.material_found
                    THEN [state EXCEPT
                            !.chemistry_valid = FALSE,
                            !.validation_errors =
                                <<<<"Cannot validate: material not found in database">>>>]
                    ELSE [state EXCEPT
                            !.chemistry_valid = checked.all_passed,
                            !.validation_errors = SelectSeq(checked.messages, IsFailure)]
           routed == route_after_validation(after)
       IN /\ state' = routed.state
          /\ route' = Some(routed.next)
          /\ Visit("validate_chemistry", routed.next)
    /\ UNCHANGED <<agent_vars, api_vars, store_vars>>

\* analyze_node followed by its conditional edge
analyze_node ==
    /\ node = "analyze"
    /\ \E after \in
          IF ~state.material_found
          THEN {[state EXCEPT !.analysis = None,
                              !.analysis_error = Some("Cannot analyze: material not found")]}
          ELSE {[state EXCEPT !.analysis = Some({"Thermal Behavior", "Limitations"}),
                              !.analysis_error = None]}
               \cup {[state EXCEPT !.analysis = None, !.analysis_error = Some(text)] :
                        text \in EXCEPTION_TEXTS} :
          LET routed == route_after_analysis(after)
          IN /\ state' = routed.state
             /\ route' = Some(routed.next)
             /\ Visit("analyze", routed.next)
    /\ UNCHANGED <<agent_vars, api_vars, store_vars>>

hypothesize_node ==
    /\ node = "hypothesize"
    /\ IF ~DictTruthy(state.analysis)
       THEN state' = [state EXCEPT
                        !.hypotheses = <<>>,
                        !.hypotheses_error =
                            Some("Cannot hypothesize: analysis did not complete")]
       ELSE \/ \E hs \in {<<>>, <<"hypothesis">>, <<"hypothesis", "hypothesis">>} :
                  state' = [state EXCEPT !.hypotheses = hs, !.hypotheses_error = None]
            \/ \E text \in EXCEPTION_TEXTS :
                  state' = [state EXCEPT !.hypotheses = <<>>,
                                         !.hypotheses_error = Some(text)]
    /\ Visit("hypothesize", "format")
    /\ UNCHANGED <<route, agent_vars, api_vars, store_vars>>

format_node ==
    /\ node = "format"
    /\ \/ state' = [state EXCEPT !.formatted_output = Some("markdown"),
                                 !.pipeline_status = "success"]
       \/ \E text \in EXCEPTION_TEXTS : state' = FormatFailed(state, text)
    /\ Visit("format", "END")
    /\ UNCHANGED <<route, agent_vars, api_vars, store_vars>>

error_node ==
    /\ node = "error"
    /\ state' = [state EXCEPT !.formatted_output = Some("error_report"),
                              !.pipeline_status = "error"]
    /\ Visit("error", "END")
    /\ UNCHANGED <<route, agent_vars, api_vars, store_vars>>

NextGraph ==
    \/ lookup_node \/ validate_chemistry_node \/ analyze_node
    \/ hypothesize_node \/ format_node \/ error_node

SpecGraph == InitGraph /\ [][NextGraph]_vars

\* ainvoke runs the graph until END
SpecGraphFair == SpecGraph /\ WF_vars(NextGraph)

-----------------------------------------------------------------------------
\* The routing functions called on their own, as the tests call them, on a
\* pipeline state of any content.

\* the pipeline states the routing functions are given
PipelineStates ==
    {[create_initial_state("NaCl") EXCEPT
         !.material_found = mf,
         !.chemistry_valid = cv,
         !.validation_errors = ve,
         !.analysis = an,
         !.analysis_error = ae] :
       mf \in BOOLEAN, cv \in BOOLEAN,
       ve \in {<<>>, <<<<"Charge neutrality failed">>>>,
               <<<<"failed", "Has Material ID">>, <<"failed", "Has Crystal Structure">>>>},
       an \in {None, Some({}), Some({"Thermal Behavior"})},
       ae \in {None, Some(""), Some("failed")}}

InitRoutes ==
    /\ state \in PipelineStates
    /\ node = "idle"
    /\ visited = <<>>
    /\ route = None
    /\ AgentIdle
    /\ ApiIdle
    /\ StoreIdle

\* one call of a routing function: what it returns and what it leaves in
\* the state
Routed(r) ==
    /\ route = None
    /\ route' = Some(r.next)
    /\ state' = r.state
    /\ UNCHANGED <<node, visited, agent_vars, api_vars, store_vars>>

RouteAfterLookup == Routed(route_after_lookup(state))

RouteAfterValidation == Routed(route_after_validation(state))

RouteAfterAnalysis == Routed(route_after_analysis(state))

NextRoutes == RouteAfterLookup \/ RouteAfterValidation \/ RouteAfterAnalysis

SpecRoutes == InitRoutes /\ [][NextRoutes]_vars

-----------------------------------------------------------------------------
\* The rule store: the rules file of one RuleStorage and the calls of
\* save_rules on it.  A text is the sequence of its characters.

\* the most rules one call of save_rules is given
MaxRules == 2

\* the most calls of save_rules on one store
MaxSaves == 2

\* the rule texts the callers pass: "", " ", "a", "A", " a " and "b"
RULE_TEXTS == {<<>>, <<" ">>, <<"a">>, <<"A">>, <<" ", "a", " ">>, <<"b">>}

\* the rules_list arguments
RULES_LISTS ==
    UNION {[1..n -> {[rule_text |-> t] : t \in RULE_TEXTS}] : n \in 0..MaxRules}

\* str.lower()
Lower(text) == [i \in 1..Len(text) |-> IF text[i] = "A" THEN "a" ELSE text[i]]

\* str.lstrip()
RECURSIVE LStrip(_)
LStrip(text) ==
    IF text # <<>> /\ Head(text) = " " THEN LStrip(Tail(text)) ELSE text

\* str.rstrip()
RECURSIVE RStrip(_)
RStrip(text) ==
    IF text # <<>> /\ text[Len(text)] = " "
    THEN RStrip(SubSeq(text, 1, Len(text) - 1))
    ELSE text

\* str.strip()
Strip(text) == RStrip(LStrip(text))

\* the hash of the text as written
hash_rule_text_Raw(rule_text) == rule_text

\* _hash_rule_text: the digest is taken as one-to-one on normalized texts
hash_rule_text(rule_text) == Strip(Lower(rule_text))

\* the loop of save_rules over what is left of rules_list
RECURSIVE NewRules(_, _, _)
NewRules(existing_rules, new_rules, rest) ==
    IF rest = <<>> THEN new_rules
    ELSE LET rule_text == Head(rest).rule_text
             existing_hashes ==
                 {hash_rule_text(existing_rules[i].rule_text) :
                     i \in 1..Len(existing_rules)}
                 \cup {hash_rule_text(new_rules[i].rule_text) :
                          i \in 1..Len(new_rules)}
         IN IF rule_text = <<>>
            THEN NewRules(existing_rules, new_rules, Tail(rest))
            ELSE IF hash_rule_text(rule_text) \notin existing_hashes
            THEN NewRules(existing_rules,
                          Append(new_rules,
                                 [rule_text |-> rule_text,
                                  rule_id |-> Len(existing_rules) + Len(new_rules)]),
                          Tail(rest))
            ELSE NewRules(existing_rules, new_rules, Tail(rest))

InitStore ==
    /\ rules_file = <<>>
    /\ returned = None
    /\ saves = 0
    /\ last_call = None
    /\ AgentIdle
    /\ ApiIdle
    /\ GraphIdle

\* one call of save_rules; last_call remembers the file it found and its
\* argument
SaveRules ==
    /\ saves < MaxSaves
    /\ \E rules_list \in RULES_LISTS :
          LET new_rules == NewRules(rules_file, <<>>, rules_list)
          IN /\ rules_file' = rules_file \o new_rules
             /\ returned' = Some(Len(new_rules))
             /\ last_call' = Some([before |-> rules_file, rules_list |-> rules_list])
    /\ saves' = saves + 1
    /\ UNCHANGED <<agent_vars, api_vars, graph_vars>>

NextStore == SaveRules

SpecStore == InitStore /\ [][NextStore]_vars

(***************************************************************************)
(* Properties                                                              *)
(***************************************************************************)
Called(c) == \E i \in 1..Len(calls) : calls[i] = c

Returned == pc = "done" /\ result # None

\* the names of the lines of a returned trail, in order
TrailNames == [i \in 1..Len(result[1].reasoning) |-> result[1].reasoning[i].name]

\* the returned trail is the first n decisions, line by line
TrailIsDecisions(n) ==
    /\ Len(result[1].reasoning) = n
    /\ \A i \in 1..n :
          result[1].reasoning[i] =
             [name |-> decisions[i].name,
              mark |-> IF decisions[i].ok THEN "Yes" ELSE "No",
              text |-> decisions[i].justification]

DetailsAbsent ==
    /\ result[1].details.formation_energy_ev_per_atom = <<>>
    /\ result[1].details.ehull_ev_per_atom = <<>>

\* how many of the three soft-filter decisions failed
SoftFails == Cardinality({i \in 2..4 : ~decisions[i].ok})

FiltersRan == Len(decisions) >= 4

GatePassed == FiltersRan /\ decisions[1].ok /\ SoftFails <= 1

\* C1: whenever the stoichiometry veto fails the evaluation has returned at
\* once: verdict "Not feasible", a trail of exactly one line (the veto
\* decision), both detail fields absent, and no soft filter, builder, oracle,
\* catalogue or hull call was made.
C1_VetoFailureReturnsAtOnce ==
    (Len(decisions) >= 1 /\ ~decisions[1].ok) =>
        /\ Returned
        /\ result[1].verdict = "Not feasible"
        /\ TrailIsDecisions(1)
        /\ TrailNames = <<"Stoichiometry Veto">>
        /\ DetailsAbsent
        /\ calls = <<"parse_formula", "check_stoichiometry_veto">>

\* a veto failed on a charge imbalance and the evaluation returned
C1_Witness ==
    /\ Returned
    /\ ~decisions[1].ok
    /\ decisions[1].justification = JUST_NETCHARGE

\* C2: once the veto passed and the three soft filters ran in the order
\* electronegativity, analogue, radius ratio: two or more failures mean the
\* evaluation returned "Not feasible" with exactly the four decisions so far,
\* no energy or hull line, both details absent and no builder call; at most
\* one failure means the evaluation went on to the structure builder.
C2_SoftFilterGate ==
    (FiltersRan /\ decisions[1].ok) =>
        /\ <<decisions[1].name, decisions[2].name, decisions[3].name, decisions[4].name>>
              = <<"Stoichiometry Veto", "Electronegativity", "Analogues",
                  "Crystal Chemistry Rules">>
        /\ SoftFails >= 2 =>
              /\ Returned
              /\ result[1].verdict = "Not feasible"
              /\ TrailIsDecisions(4)
              /\ DetailsAbsent
              /\ ~Called("generate_prototype_structure")
        /\ SoftFails <= 1 =>
              (pc = "build" \/ Called("generate_prototype_structure"))

\* the veto passed, exactly two soft filters failed, the evaluation returned
C2_Witness ==
    /\ Returned
    /\ FiltersRan
    /\ decisions[1].ok
    /\ SoftFails = 2

\* C3: a returned result that carries an energy-above-hull value has its
\* verdict fixed by that value alone: <= 0.1 Feasible, <= 0.2 Metastable,
\* above 0.2 Not feasible (values in thousandths).
C3_HullDecidesVerdict ==
    (Returned /\ result[1].details.ehull_ev_per_atom # <<>>) =>
        LET e == result[1].details.ehull_ev_per_atom[1]
        IN  result[1].verdict =
               IF e <= 100 THEN "Feasible"
               ELSE IF e <= 200 THEN "Metastable"
               ELSE "Not feasible"

\* a hull value on the 0.1 boundary with a positive formation energy
C3_Witness ==
    /\ Returned
    /\ result[1].details.ehull_ev_per_atom = <<100>>
    /\ result[1].details.formation_energy_ev_per_atom = <<500>>
    /\ result[1].verdict = "Feasible"

\* C4: a result returned by verdict synthesis without a hull value is
\* "Feasible" when a formation energy was obtained and is negative, else
\* "Metastable" when at least two of the three soft filters passed, else
\* "Uncertain".
C4_VerdictWithoutHull ==
    (Returned /\ GatePassed /\ result[1].details.ehull_ev_per_atom = <<>>) =>
        LET fe == result[1].details.formation_energy_ev_per_atom
        IN  result[1].verdict =
               IF fe # <<>> /\ fe[1] < 0 THEN "Feasible"
               ELSE IF 3 - SoftFails >= 2 THEN "Metastable"
               ELSE "Uncertain"

\* no hull value and a formation energy of exactly zero: not negative
C4_Witness ==
    /\ Returned
    /\ GatePassed
    /\ result[1].details.ehull_ev_per_atom = <<>>
    /\ result[1].details.formation_energy_ev_per_atom = <<0>>
    /\ result[1].verdict = "Metastable"

SixNames == <<"Stoichiometry Veto", "Electronegativity", "Analogues",
              "Crystal Chemistry Rules", "Formation Energy (M3GNet)",
              "Convex Hull Stability (Ehull)">>

\* C5 as stated: every evaluation that passed the veto and the gate returns
\* the six-line trail, also when the builder raises.
C5_AlwaysSixEntries ==
    (Returned /\ GatePassed) => TrailNames = SixNames

\* C5: an evaluation that passed the veto and the gate returns the six-line
\* trail (veto, three soft filters, Formation Energy, Convex Hull Stability)
\* whenever the builder returned a structure, also when the oracle, the
\* catalogue lookup or the hull calculation fails; when the builder gave no
\* structure the trail has five lines, ending with a failed Formation Energy
\* line and holding no Convex Hull line.
C5_SixEntriesGivenStructure ==
    (Returned /\ GatePassed) =>
        IF structure # <<>>
        THEN TrailNames = SixNames /\ TrailIsDecisions(6)
        ELSE /\ TrailNames = SubSeq(SixNames, 1, 5)
             /\ TrailIsDecisions(5)
             /\ result[1].reasoning[5].mark = "No"

\* a structure was built, the oracle answered, the hull calculation failed
C5_Witness ==
    /\ Returned
    /\ GatePassed
    /\ structure # <<>>
    /\ Called("compute_ehull")
    /\ ehull = <<>>
    /\ Len(result[1].reasoning) = 6

Verdicts == {"Feasible", "Metastable", "Not feasible", "Uncertain"}

LastDecision == decisions[Len(decisions)]

\* decision d is a failed one that carries one of the given texts
FailedWith(d, name, texts) == d.name = name /\ ~d.ok /\ d.justification \in texts

\* C6: whatever the formula and whatever the builder, the oracle, the
\* catalogue and the hull calculation do, no exception leaves the evaluation,
\* a returned result carries one of the four verdicts, and each collaborator
\* failure is on the trail as a failed decision with its diagnostic text.
C6_AlwaysAVerdict ==
    /\ pc # "raised"
    /\ pc = "done" => result # <<>> /\ result[1].verdict \in Verdicts
    /\ (Returned /\ Called("generate_prototype_structure")) =>
          /\ structure = <<>> =>
                /\ Len(decisions) = 5
                /\ FailedWith(decisions[5], "Formation Energy (M3GNet)",
                              {MSG_FE_EXCEPTION, MSG_FE_NO_STRUCTURE})
          /\ (structure # <<>> /\ est_fe = <<>>) =>
                FailedWith(decisions[5], "Formation Energy (M3GNet)", {MSG_FE_FAILED})
          /\ (structure # <<>> /\ competing_phases = <<>>) =>
                FailedWith(LastDecision, "Convex Hull Stability (Ehull)", {MSG_NO_PHASES})
          /\ (Called("compute_ehull") /\ ehull = <<>>) =>
                FailedWith(LastDecision, "Convex Hull Stability (Ehull)", {MSG_EHULL_FAILED})

\* the builder raised and the evaluation still returned a verdict
C6_Witness ==
    /\ Returned
    /\ Called("generate_prototype_structure")
    /\ structure = <<>>
    /\ result[1].verdict \in Verdicts

\* the positive and the negative tabulated oxidation states of an element
PositiveStates(e) == {OxStates(e)[i] : i \in 1..Len(OxStates(e))} \cap (1..100)

NegativeStates(e) == {OxStates(e)[i] : i \in 1..Len(OxStates(e))} \cap (-100..-1)

\* state times atom count for the lowest positive state, 0 without one
LowestPositiveCharge(comp, e) ==
    IF PositiveStates(e) = {} THEN 0 ELSE MinOf(PositiveStates(e)) * Count(comp, e)

\* state times atom count for the lowest negative state, 0 without one
LowestNegativeCharge(comp, e) ==
    IF NegativeStates(e) = {} THEN 0 ELSE MinOf(NegativeStates(e)) * Count(comp, e)

\* the charge total as the claim words it: electronegativity-sorted elements,
\* split at the midpoint, lowest positive state for the lower half and lowest
\* negative state for the upper half
MidpointTotal(comp) ==
    LET els == SortedByEN(Keys(comp))
        half == Len(els) \div 2
    IN  SumSeq([i \in 1..Len(els) |->
                  IF i <= half THEN LowestPositiveCharge(comp, els[i])
                  ELSE LowestNegativeCharge(comp, els[i])])

\* C7: the veto decision is "passed" exactly when the composition has at
\* least two distinct elements and the midpoint-split charge total is zero.
C7_VetoIffNeutral ==
    Len(decisions) >= 1 =>
        (decisions[1].ok <=> (Len(composition) >= 2 /\ MidpointTotal(composition) = 0))

\* the veto passed for a composition whose cation has two positive states
C7_Witness ==
    /\ Len(decisions) >= 1
    /\ decisions[1].ok
    /\ HasKey(composition, El_Cu)
    /\ HasKey(composition, El_Cl)
    /\ Count(composition, El_Cu) > 0

\* the less and the more electronegative element of a two-element composition
LessEN(comp) == IF ENKey(comp[1].el) < ENKey(comp[2].el) THEN comp[1].el ELSE comp[2].el

MoreEN(comp) == IF ENKey(comp[1].el) < ENKey(comp[2].el) THEN comp[2].el ELSE comp[1].el

TwoElements(comp) == Len(comp) = 2 /\ ENKey(comp[1].el) # ENKey(comp[2].el)

\* some positive state of the one and some negative state of the other cancel
SomeStatesNeutral(comp) ==
    /\ TwoElements(comp)
    /\ \E p \in PositiveStates(LessEN(comp)) : \E n \in NegativeStates(MoreEN(comp)) :
          p * Count(comp, LessEN(comp)) + n * Count(comp, MoreEN(comp)) = 0

\* the lowest positive state of the one and the lowest negative of the other cancel
LowestStatesNeutral(comp) ==
    /\ TwoElements(comp)
    /\ PositiveStates(LessEN(comp)) # {}
    /\ NegativeStates(MoreEN(comp)) # {}
    /\ MinOf(PositiveStates(LessEN(comp))) * Count(comp, LessEN(comp))
          + MinOf(NegativeStates(MoreEN(comp))) * Count(comp, MoreEN(comp)) = 0

EndedAtStageOne == Returned /\ Len(result[1].reasoning) = 1

\* C8 as stated: a two-element formula that some pair of tabulated states
\* makes neutral passes the veto and does not end at stage 1.
C8_SomeStatesPass ==
    (Len(decisions) >= 1 /\ SomeStatesNeutral(composition)) =>
        decisions[1].ok /\ ~EndedAtStageOne

\* C8: a two-element formula that the lowest positive state of its less
\* electronegative element and the lowest negative state of its more
\* electronegative element make neutral passes the veto and does not end
\* at stage 1.
C8_LowestStatesPass ==
    (Len(decisions) >= 1 /\ LowestStatesNeutral(composition)) =>
        decisions[1].ok /\ ~EndedAtStageOne

\* MgO passed the veto and went on to the soft filters
C8_Witness ==
    /\ Len(decisions) >= 4
    /\ LowestStatesNeutral(composition)
    /\ Keys(composition) = <<El_Mg, El_O>>

\* the set of elements of the parsed formula
ElementSet == {composition[i].el : i \in 1..Len(composition)}

SystemOf(key) == {key[i] : i \in 1..Len(key)}

\* C9 as stated: the lookup made for a formula returns the entries of the
\* catalogue system whose elements are exactly the formula's, and the empty
\* list when the catalogue has no such system.
C9_LookupBySystem ==
    (Called("get_competing_phases") /\ PmgValid(formula)) =>
        /\ \A key \in DOMAIN COMPETING_PHASES_LIBRARY :
              SystemOf(key) = ElementSet =>
                 competing_phases = COMPETING_PHASES_LIBRARY[key]
        /\ (\A key \in DOMAIN COMPETING_PHASES_LIBRARY : SystemOf(key) # ElementSet) =>
              competing_phases = <<>>

\* C10: in a returned evaluation that reached the energy stage the hull
\* calculation was invoked exactly when the catalogue lookup gave a non-empty
\* list and a formation energy was obtained; without the invocation, and when
\* the hull calculation raised, the hull value is absent and the last line of
\* the trail is a failed decision with its diagnostic text.
C10_HullExactlyWhenData ==
    (Returned /\ Called("generate_prototype_structure")) =>
        /\ Called("compute_ehull") <=>
              (/\ Called("get_competing_phases")
               /\ competing_phases # <<>>
               /\ result[1].details.formation_energy_ev_per_atom # <<>>)
        /\ ~Called("compute_ehull") =>
              /\ result[1].details.ehull_ev_per_atom = <<>>
              /\ ~LastDecision.ok
              /\ LastDecision.justification \in
                    {MSG_NO_PHASES, MSG_FE_NO_STRUCTURE, MSG_FE_EXCEPTION}
        /\ (Called("compute_ehull") /\ LastDecision.justification = MSG_EHULL_FAILED) =>
              /\ result[1].details.ehull_ev_per_atom = <<>>
              /\ FailedWith(LastDecision, "Convex Hull Stability (Ehull)", {MSG_EHULL_FAILED})
        /\ (Called("compute_ehull") /\ LastDecision.justification # MSG_EHULL_FAILED) =>
              result[1].details.ehull_ev_per_atom # <<>>

\* the hull value was computed from a positive formation energy
C10_Witness ==
    /\ Returned
    /\ Called("compute_ehull")
    /\ competing_phases # <<>>
    /\ result[1].details.formation_energy_ev_per_atom = <<500>>
    /\ result[1].details.ehull_ev_per_atom # <<>>

\* C11 as stated: the structure handed to the oracle is built by template
\* priority: the five-site perovskite for a composition that holds oxygen
\* and at least three distinct elements, the two-site rock-salt otherwise.
C11_TemplatePriority ==
    (Called("generate_prototype_structure") /\ structure # <<>>) =>
        Len(structure[1].species) =
           IF HasKey(composition, El_O) /\ Len(composition) >= 3 THEN 5 ELSE 2

\* C12: when the external predictor fails in any way the adapter hands back
\* no energy and the failure text, nothing is raised, the hull calculation is
\* not entered, the trail gets a failed Formation Energy decision, and the
\* evaluation goes on to verdict synthesis with formation energy absent.
C12_OracleFailureAbsorbed ==
    (oracle_resp # <<>> /\ oracle_resp[1].kind \in ORACLE_FAILURES) =>
        /\ pc \in {"verdict", "done"}
        /\ est_fe = <<>>
        /\ ~Called("compute_ehull")
        /\ Len(decisions) = 6
        /\ FailedWith(decisions[5], "Formation Energy (M3GNet)",
                      {"M3GNet prediction failed: dtype mismatch or other error."})
        /\ pc = "done" =>
              /\ result # <<>>
              /\ result[1].verdict \in Verdicts
              /\ result[1].details.formation_energy_ev_per_atom = <<>>
              /\ result[1].reasoning[5].mark = "No"

\* the prediction gave something float() rejects and the evaluation returned
C12_Witness ==
    /\ Returned
    /\ oracle_resp # <<>>
    /\ oracle_resp[1].kind = "not_a_number"

\* the formula text holds no upper-case letter, so no element token
NoElementToken == \A i \in 1..Len(formula) : formula[i] \notin UPPER

\* C13 as stated: a formula without any element token is rejected with a
\* parse error and no result carrying a verdict is produced.
C13_NoTokenRejected ==
    (NoElementToken /\ Called("parse_formula")) => result = <<>>

\* C13: a formula without any element token parses to the empty composition
\* without an error, and the evaluation returns the verdict "Not feasible"
\* with the single veto line "Invalid or unary composition.".
C13_NoTokenEmptyComposition ==
    (NoElementToken /\ Called("parse_formula")) =>
        /\ composition = <<>>
        /\ Returned
        /\ result[1].verdict = "Not feasible"
        /\ TrailIsDecisions(1)
        /\ result[1].reasoning[1].text = "Invalid or unary composition."

\* a non-empty text of digits and lower-case letters was evaluated
C13_Witness ==
    /\ Returned
    /\ NoElementToken
    /\ Len(formula) >= 2

\* C14: the empty formula and every formula with one distinct element return
\* "Not feasible" with the single line "Invalid or unary composition.", and
\* neither the builder nor the oracle is called.
C14_UnaryRejected ==
    (Called("parse_formula") /\ Cardinality(ElementSet) <= 1) =>
        /\ Returned
        /\ result[1].verdict = "Not feasible"
        /\ Len(result[1].reasoning) = 1
        /\ result[1].reasoning[1] =
              [name |-> "Stoichiometry Veto", mark |-> "No",
               text |-> "Invalid or unary composition."]
        /\ ~Called("generate_prototype_structure")
        /\ ~Called("predict_formation_energy")

\* one element, written twice, was rejected
C14_Witness ==
    /\ Returned
    /\ Len(composition) = 1
    /\ Len(Tokens(formula, 1)) = 2

\* C15: in a returned trail the Formation Energy line is marked passed exactly
\* when a formation energy was obtained and is below zero, and the Convex
\* Hull Stability line exactly when a hull value was obtained and is <= 0.2.
C15_DecisionMarks ==
    Returned =>
        \A i \in 1..Len(result[1].reasoning) :
           LET line == result[1].reasoning[i]
               fe == result[1].details.formation_energy_ev_per_atom
               eh == result[1].details.ehull_ev_per_atom
           IN  /\ line.name = "Formation Energy (M3GNet)" =>
                     (line.mark = "Yes" <=> (fe # <<>> /\ fe[1] < 0))
               /\ line.name = "Convex Hull Stability (Ehull)" =>
                     (line.mark = "Yes" <=> (eh # <<>> /\ eh[1] <= 200))

\* a hull value of 0.2 marked passed beside a formation energy of 0 marked failed
C15_Witness ==
    /\ Returned
    /\ Len(result[1].reasoning) = 6
    /\ result[1].details.ehull_ev_per_atom = <<200>>
    /\ result[1].reasoning[6].mark = "Yes"
    /\ result[1].details.formation_energy_ev_per_atom = <<0>>
    /\ result[1].reasoning[5].mark = "No"

\* what one occurrence contributes: its written count, 1 when none is written
TokenAmount(t) == IF t.count = <<>> THEN 1 ELSE IntOf(t.count)

\* the sum over all occurrences of symbol e in the formula text
OccurrenceSum(e) ==
    LET toks == Tokens(formula, 1)
    IN  SumSeq([i \in 1..Len(toks) |->
                   IF toks[i].el = e THEN TokenAmount(toks[i]) ELSE 0])

\* C20: the parsed composition has exactly the symbols occurring in the
\* formula, each once, and maps each to the sum of the counts of all its
\* occurrences, an occurrence without a written count contributing 1.
C20_ParseSumsOccurrences ==
    Called("parse_formula") =>
        LET toks == Tokens(formula, 1)
        IN  /\ ElementSet = {toks[i].el : i \in 1..Len(toks)}
            /\ \A i, k \in 1..Len(composition) :
                  composition[i].el = composition[k].el => i = k
            /\ \A i \in 1..Len(composition) :
                  composition[i].n = OccurrenceSum(composition[i].el)

\* one symbol written twice, once with count 2 and once without: it maps to 3
C20_Witness ==
    /\ Called("parse_formula")
    /\ Len(Tokens(formula, 1)) = 2
    /\ \E i \in 1..2 : Tokens(formula, 1)[i].count = <<>>
    /\ Len(composition) = 1
    /\ composition[1].n = 3

\* a filter function, called on its own, has returned its decision
FilterReturned(f) == pc = "returned" /\ Called(f) /\ Len(decisions) = 1

\* C16: for a non-empty composition the electronegativity filter raises
\* nothing; it fails with "Missing EN data." when some element has no
\* electronegativity entry, and otherwise, with delta the largest minus the
\* smallest electronegativity of the elements, it passes as "plausible
\* bonding" when delta >= 1.0, passes as "moderate polarity" when
\* 0.5 <= delta < 1.0, and fails as "metallic clustering likely" below 0.5.
C16_ENThresholds ==
    /\ (Called("electronegativity_trend") /\ composition # <<>>) => pc = "returned"
    /\ FilterReturned("electronegativity_trend") =>
          LET d == decisions[1]
          IN  /\ d.name = "Electronegativity"
              /\ IF \E e \in ElementSet : e \notin DOMAIN ELECTRONEGATIVITY
                 THEN ~d.ok /\ d.justification = "Missing EN data."
                 ELSE \E hi, lo \in ElementSet :
                        /\ \A e \in ElementSet :
                              /\ ELECTRONEGATIVITY[lo] <= ELECTRONEGATIVITY[e]
                              /\ ELECTRONEGATIVITY[e] <= ELECTRONEGATIVITY[hi]
                        /\ LET delta == ELECTRONEGATIVITY[hi] - ELECTRONEGATIVITY[lo]
                           IN  /\ delta >= 100 =>
                                     d.ok /\ d.justification = "suggests plausible bonding."
                               /\ (50 <= delta /\ delta < 100) =>
                                     d.ok /\ d.justification = "indicates moderate polarity."
                               /\ delta < 50 =>
                                     /\ ~d.ok
                                     /\ d.justification = "is low; metallic clustering likely."

\* boron and nitrogen, 2.04 and 3.04: delta is exactly 1.0 and the filter passed
C16_Witness ==
    /\ FilterReturned("electronegativity_trend")
    /\ ElementSet = {El_B, El_N}
    /\ decisions[1].ok
    /\ decisions[1].justification = "suggests plausible bonding."

\* the first element of a half that has a radius entry, as a set of at most one
FirstWithRadius(half) ==
    {half[i] : i \in {k \in 1..Len(half) :
                        /\ half[k] \in DOMAIN IONIC_RADII_PM
                        /\ \A m \in 1..(k - 1) : half[m] \notin DOMAIN IONIC_RADII_PM}}

\* C17: the radius filter takes the first element with a radius of the cation
\* half and of the anion half of the electronegativity-sorted elements; it
\* passes exactly when 0.3 <= r_cation / r_anion <= 0.7, and when a half has
\* no element with a radius it fails with "Insufficient radii data.".
C17_RadiusWindow ==
    FilterReturned("crystal_rules_feasibility") =>
        LET d == decisions[1]
            els == SortedByEN(Keys(composition))
            cs == FirstWithRadius(CationHalf(els))
            as == FirstWithRadius(AnionHalf(els))
        IN  /\ d.name = "Crystal Chemistry Rules"
            /\ IF cs = {} \/ as = {}
               THEN ~d.ok /\ d.justification = "Insufficient radii data."
               ELSE \A c \in cs : \A a \in as :
                      LET rc == IONIC_RADII_PM[c]
                          ra == IONIC_RADII_PM[a]
                          inside == 3 * ra <= 10 * rc /\ 10 * rc <= 7 * ra
                      IN  /\ d.ok <=> inside
                          /\ d.justification =
                                IF inside THEN "within stable window."
                                ELSE "outside stable window."

\* Br, O, Mg, K: the anion half is Br then O, Br has no radius, and the ratio
\* taken is K over O, 138 / 140, outside the window
C17_Witness ==
    /\ FilterReturned("crystal_rules_feasibility")
    /\ Keys(composition) = <<El_Br, El_O, El_Mg, El_K>>
    /\ ~decisions[1].ok
    /\ decisions[1].justification = "outside stable window."

\* C18 as stated: the analogue filter passes exactly when one of Cl, Br, I, O
\* is an element of the formula's composition, and fails with "No clear
\* analogue family detected." otherwise.
C18_PassesIffFamilyElement ==
    FilterReturned("analogue_comparison_hint") =>
        LET d == decisions[1]
            family == ElementSet \cap {El_Cl, El_Br, El_I, El_O} # {}
        IN  /\ d.ok <=> family
            /\ ~family => d.justification = "No clear analogue family detected."

\* C19: a formula evaluated a second time, after an evaluation of another
\* formula and with the collaborators answering as in the first evaluation,
\* asks the same collaborators and returns the same verdict, trail and
\* details as the first time.
C19_SameResultOnRepeat ==
    (run = 3 /\ pc \in {"done", "raised"}) =>
        /\ pc = "done"
        /\ result = first.result
        /\ oracle_resp = first.oracle
        /\ hull_resp = first.hull

\* the repeat went through the hull calculation after a different formula
\* had been through the energy stage in between
C19_Witness ==
    /\ run = 3
    /\ Returned
    /\ Called("compute_ehull")
    /\ first.other # first.formula
    /\ Len(result[1].reasoning) = 6
    /\ result = first.result

\* C21 as stated: every composition parse_formula produces, and so every
\* composition handed to the veto and the soft filters, maps each of its
\* elements to a count of at least 1.
C21_CountsPositive ==
    Called("parse_formula") =>
        \A i \in 1..Len(composition) : composition[i].n >= 1

\* how often a collaborator was called in this evaluation
CountCalls(c) == Cardinality({i \in 1..Len(calls) : calls[i] = c})

\* C27: the builder is called only after the veto passed and fewer than two
\* soft filters failed, the oracle only after the builder gave a structure,
\* the hull calculation only after the oracle gave an estimate, and each of
\* the three is called at most once in an evaluation.
C27_StagesInOrderOnce ==
    /\ \A c \in {"generate_prototype_structure", "predict_formation_energy",
                 "compute_ehull"} : CountCalls(c) <= 1
    /\ Called("generate_prototype_structure") =>
          /\ Called("crystal_rules_feasibility")
          /\ Len(decisions) >= 4
          /\ decisions[1].ok
          /\ Cardinality({i \in 2..4 : ~decisions[i].ok}) < 2
    /\ Called("predict_formation_energy") =>
          /\ Called("generate_prototype_structure")
          /\ structure # <<>>
    /\ Called("compute_ehull") =>
          /\ Called("predict_formation_energy")
          /\ oracle_resp # <<>>
          /\ oracle_resp[1].kind = "ok"
          /\ est_fe # <<>>

\* the oracle failed, was asked once, and the evaluation returned a verdict
C27_Witness ==
    /\ Returned
    /\ oracle_resp # <<>>
    /\ oracle_resp[1].kind = "predict_raised"
    /\ CountCalls("predict_formation_energy") = 1
    /\ ~Called("compute_ehull")

\* C29: no evaluation returns "Uncertain": verdict synthesis is reached only
\* with at least two passed soft filters, and a result without a hull value
\* and without a negative formation energy carries the verdict "Metastable".
C29_NeverUncertain ==
    /\ pc = "verdict" => filters_pass >= 2
    /\ Returned =>
          /\ result[1].verdict # "Uncertain"
          /\ (/\ Len(result[1].reasoning) >= 5
              /\ result[1].details.ehull_ev_per_atom = <<>>
              /\ ~(/\ result[1].details.formation_energy_ev_per_atom # <<>>
                   /\ result[1].details.formation_energy_ev_per_atom[1] < 0))
             => result[1].verdict = "Metastable"

\* the oracle failed, no hull value exists, and the verdict was given
C29_Witness ==
    /\ Returned
    /\ Len(result[1].reasoning) = 6
    /\ DetailsAbsent
    /\ filters_pass = 2
    /\ result[1].verdict = "Metastable"

\* C30: in a returned result the hull value is present only if the formation
\* energy is, both are absent when the evaluation ended at the veto or at
\* the soft-filter gate, and a Convex Hull Stability line marked passed comes
\* with the verdict "Feasible" or "Metastable".
C30_DetailsConsistent ==
    Returned =>
        /\ result[1].details.ehull_ev_per_atom # <<>> =>
              result[1].details.formation_energy_ev_per_atom # <<>>
        /\ Len(result[1].reasoning) <= 4 => DetailsAbsent
        /\ \A i \in 1..Len(result[1].reasoning) :
              (/\ result[1].reasoning[i].name = "Convex Hull Stability (Ehull)"
               /\ result[1].reasoning[i].mark = "Yes")
              => result[1].verdict \in {"Feasible", "Metastable"}

\* a hull value of 0.2 beside a positive formation energy: Metastable
C30_Witness ==
    /\ Returned
    /\ Len(result[1].reasoning) = 6
    /\ result[1].reasoning[6].mark = "Yes"
    /\ result[1].details.formation_energy_ev_per_atom = <<500>>
    /\ result[1].details.ehull_ev_per_atom = <<200>>
    /\ result[1].verdict = "Metastable"

\* a collaborator of run_pipeline was called
Stepped(call) == \E i \in 1..Len(steps) : steps[i].call = call

\* the lookup returned a record that carries material_id or formula_pretty
LookupHit ==
    /\ Stepped("parse_dataset")
    /\ parsed # <<>>
    /\ \E k \in parsed[1] : k \in {"material_id", "formula_pretty"}

\* the lookup raised or returned a record without either key
LookupMiss == Stepped("parse_dataset") /\ ~LookupHit

RECURSIVE ChunksOf(_)
ChunksOf(log) ==
    IF log = <<>> THEN <<>>
    ELSE IF Head(log) = <<>> THEN ChunksOf(Tail(log))
    ELSE <<Head(log)[1]>> \o ChunksOf(Tail(log))

\* how many sentinels were handed to the loop
Sentinels == Cardinality({i \in 1..Len(put_log) : put_log[i] = <<>>})

\* the pipeline raised: a collaborator other than the lookup raised
PipelineRaised ==
    \E i \in 1..Len(steps) : steps[i].raised /\ steps[i].call # "parse_dataset"

\* what holds of the stream in every state
StreamSafe ==
    /\ Sentinels <= 1
    /\ Sentinels = 1 => put_log[Len(put_log)] = <<>>
    /\ thread = "done" =>
          /\ Sentinels = 1
          /\ PipelineRaised =>
                /\ Len(put_log) >= 2
                /\ put_log[Len(put_log) - 1] = <<"Error in pipeline">>
    /\ \E n \in 0..Len(ChunksOf(put_log)) : yielded = SubSeq(ChunksOf(put_log), 1, n)
    /\ handler = "finished" =>
          /\ thread = "done"
          /\ pending = <<>>
          /\ queue = <<>>
          /\ yielded = ChunksOf(put_log)

\* C28: for a request that starts the pipeline thread, the thread hands the
\* sentinel to the queue exactly once and after every chunk, with the error
\* chunk right before it when the pipeline raised; the generator yields the
\* chunks in the order they were emitted and nothing after the sentinel, and
\* it terminates.
C28_StreamEndsOnce ==
    /\ []StreamSafe
    /\ [][handler = "finished" => (handler' = "finished" /\ yielded' = yielded)]_vars
    /\ (handler = "streaming" ~> handler = "finished")

\* the pipeline raised and the generator ended after the error chunk
C28_Witness ==
    /\ handler = "finished"
    /\ PipelineRaised
    /\ Len(yielded) >= 3
    /\ yielded[Len(yielded)] = "Error in pipeline"

\* the node ran
Ran(name) == \E i \in 1..Len(visited) : visited[i] = name

\* C23: every execution of the pipeline graph from create_initial_state
\* terminates, whatever the lookup, analysis, hypothesis and formatting
\* collaborators return or raise, in a state whose pipeline_status is
\* "success" or "error" and whose formatted_output is not None.
C23_GraphEndsReported ==
    /\ <>(node = "END")
    /\ [](node = "END" =>
             /\ state.pipeline_status \in {"success", "error"}
             /\ state.formatted_output # None)

\* the formatter raised at the end of an otherwise successful run
C23_Witness ==
    /\ node = "END"
    /\ Ran("format")
    /\ state.pipeline_status = "error"
    /\ state.analysis # None

\* the three orders in which a whole execution can run the nodes
NodeOrders ==
    {<<"lookup", "validate_chemistry", "error">>,
     <<"lookup", "validate_chemistry", "analyze", "error">>,
     <<"lookup", "validate_chemistry", "analyze", "hypothesize", "format">>}

\* C24: the nodes run in the order lookup, validate_chemistry, then error or
\* analyze, then error or hypothesize, then format; analyze runs only if
\* chemistry_valid is true after validation, hypothesize only if analysis is
\* non-empty and analysis_error unset, and exactly one of format and error
\* runs, once, as the last node.
C24_NodeOrder ==
    /\ \E order \in NodeOrders :
          /\ Len(visited) <= Len(order)
          /\ visited = SubSeq(order, 1, Len(visited))
    /\ node = "END" => visited \in NodeOrders
    /\ node # "END" =>
          /\ ~Ran("format")
          /\ ~Ran("error")
    /\ Ran("analyze") => state.chemistry_valid
    /\ Ran("hypothesize") =>
          /\ state.analysis # None
          /\ state.analysis[1] # {}
          /\ state.analysis_error = None

\* validation failed and the execution ended in the error node without
\* running the analysis
C24_Witness ==
    /\ node = "END"
    /\ visited = <<"lookup", "validate_chemistry", "error">>
    /\ state.material_found
    /\ ~state.chemistry_valid

\* C25: whenever route_after_lookup, route_after_validation or
\* route_after_analysis returns "error", error_messages is non-empty
\* afterwards.
C25_ErrorRouteHasMessage ==
    route = <<"error">> => state.error_messages # <<>>

\* the two texts are equal after lower-casing and trimming
SameRuleText(t1, t2) == Strip(Lower(t1)) = Strip(Lower(t2))

\* C26: after any sequence of save_rules calls on an initially empty store,
\* no two stored rules have texts that are equal after lower-casing and
\* trimming, no rule with empty text is stored, the rules stored before a
\* call are kept unchanged and in place, and the call returns the number of
\* rules it added.
C26_StoreDeduplicated ==
    /\ \A i, j \in 1..Len(rules_file) :
          i # j => ~SameRuleText(rules_file[i].rule_text, rules_file[j].rule_text)
    /\ \A i \in 1..Len(rules_file) : rules_file[i].rule_text # <<>>
    /\ last_call # <<>> =>
          /\ Len(last_call[1].before) <= Len(rules_file)
          /\ SubSeq(rules_file, 1, Len(last_call[1].before)) = last_call[1].before
          /\ returned = <<Len(rules_file) - Len(last_call[1].before)>>

\* a later call brought "A" and "b" to a store that held "a": one rule added
C26_Witness ==
    /\ saves >= 2
    /\ last_call # <<>>
    /\ last_call[1].before = << [rule_text |-> <<"a">>, rule_id |-> 0] >>
    /\ last_call[1].rules_list = << [rule_text |-> <<"A">>], [rule_text |-> <<"b">>] >>
    /\ returned = <<1>>

=============================================================================
